---- MODULE Spec2Model ----
(***************************************************************************)
(* Model of the Raman spectrum editing session of raman_dpid: the          *)
(* CommandHistory undo/redo engine (commands.py), the Command classes it   *)
(* drives, the MainApp callbacks that construct the commands (gui.py) and  *)
(* the numeric helpers they call (utils.py).                               *)
(*                                                                         *)
(* Conventions.                                                            *)
(*  - Python None is the empty tuple <<>>, a present value v is <<v>>.     *)
(*  - Floats are fixed-point integers.  Intensities are counted in units   *)
(*    of 1/Scale, so a normalised intensity of 1.0 is the integer Scale.   *)
(*  - numpy.nan is the integer NaN; arithmetic on it yields NaN.           *)
(*  - Python sequences are 0-based, TLA+ sequences 1-based: the code's     *)
(*    commands[i] is commands[i + 1] here, and the cursor `index` keeps    *)
(*    the code's values -1 .. len(commands) - 1.                           *)
(*  - A fit result is a dict of per-peak dicts.  dict.copy() is shallow:  *)
(*    the copy holds the same per-peak dicts.  The per-peak dicts of one   *)
(*    fit_gauss call carry one identity, a positive integer (0: no dicts); *)
(*    a write into a per-peak dict is seen through every holder of it.     *)
(*  - An exception raised by a callback leaves the assignments made before *)
(*    the raising statement in place and skips the rest of the callback.   *)
(***************************************************************************)
EXTENDS Integers, Sequences, FiniteSets, TLC

VARIABLES
    commands,               \* CommandHistory.commands
    index,                  \* CommandHistory.index
    spectrum,               \* MainApp.spectrum: None or [x, y]
    baseline_data,          \* MainApp.baseline_data: None or a sequence
    baseline_plot,          \* MainApp.baseline_plot: None or the plotted curve
    button_baseline,        \* MainApp.button_baseline.text()
    plot1_log,              \* MainApp.plot1_log: the edit log, a list of strings
    peaks_x,                \* MainApp.peaks_x
    peaks_y,                \* MainApp.peaks_y
    fit_stats_2,            \* MainApp.fit_stats_2: None or the fit result
    fit_ref,                \* identity of the per-peak dicts fit_stats_2 holds
    fit_count,              \* number of fit results built so far
    unknown_spectrum_path,  \* MainApp.unknown_spectrum_path: None or a file name
    draggableScatter,       \* MainApp.draggableScatter.data: None or [x, y]
    batch,                  \* MainApp.batch_files, current_batch_file_index,
                            \* current_batch_step_index and cropping
    database,               \* the Spectra table at MainApp.database_path, or None
    search,                 \* None, or what the last on_search read and found
    call,                   \* None, or the frame of a utils.py function called directly
    lastOp,                 \* history variable: the callback that ran last
    nops,                   \* history variable: number of callbacks run so far
    pre,                    \* history variable: session before each command
    run,                    \* history variable: the current execute/undo run
    cycle,                  \* history variable: the current undo/redo cycle
    trail                   \* history variable: logs and sessions around each command

hist == <<commands, index>>
session == <<spectrum, baseline_data, peaks_x, peaks_y, fit_stats_2>>
widgets == <<baseline_plot, button_baseline, plot1_log, unknown_spectrum_path>>
app == <<spectrum, baseline_data, baseline_plot, button_baseline, plot1_log,
         peaks_x, peaks_y, fit_stats_2, fit_ref, fit_count,
         unknown_spectrum_path, draggableScatter, batch>>
matching == <<database, search, call>>
ghost == <<lastOp, nops, pre, run, cycle, trail>>
vars == <<commands, index, spectrum, baseline_data, baseline_plot,
          button_baseline, plot1_log, peaks_x, peaks_y, fit_stats_2,
          fit_ref, fit_count, unknown_spectrum_path, draggableScatter, batch,
          database, search, call, lastOp, nops, pre, run, cycle, trail>>

(***************************************************************************)
(* Bounds of the exploration.                                              *)
(***************************************************************************)
\* Number of user callbacks explored from the freshly constructed MainApp.
MaxOps == 5
\* Fixed-point denominator of intensities: the integer Scale stands for 1.0.
Scale == 5

(***************************************************************************)
(* Program constants.                                                      *)
(***************************************************************************)
\* numpy.nan, the "missing" marker written by CropCommand.
NaN == -1000000
\* savgol_filter window_length default of get_smoothed_spectrum.
window_length == 13
\* baseline_als niter default.
niter_default == 1000
\* baseline_als p default (0.05) in units of 1/WeightScale.
p_default == 5
\* Denominator of the ALS weights: 1.0 is WeightScale.
WeightScale == 100
\* FWHM factor of fit_gauss (2.35482) in units of 1/FwhmScale.
FwhmFactor == 235482
\* Denominator of FwhmFactor.
FwhmScale == 100000

None == <<>>
Some(v) == <<v>>
IsNone(o) == o = <<>>
Val(o) == o[1]

(***************************************************************************)
(* Sequence helpers (numpy array operations used by the code).             *)
(***************************************************************************)
RECURSIVE SeqSum(_)
SeqSum(s) == IF s = <<>> THEN 0 ELSE Head(s) + SeqSum(Tail(s))

\* Python max() over a non-empty sequence.
RECURSIVE SeqMax(_)
SeqMax(s) == IF Len(s) = 1 THEN s[1]
             ELSE LET m == SeqMax(Tail(s)) IN IF s[1] >= m THEN s[1] ELSE m

\* y[valid_indices]: the subsequence of non-missing samples, in order.
ValidOnly(y) == SelectSeq(y, LAMBDA v : v # NaN)

\* np.append(a, v)
NpAppend(a, v) == Append(a, v)

\* np.delete(a, idx) for an idx inside the array (0-based).
NpDelete(a, idx) ==
    [i \in 1..(Len(a) - 1) |-> IF i <= idx THEN a[i] ELSE a[i + 1]]

\* np.delete(a, idx) raises IndexError for an idx outside the array;
\* negative idx counts from the end.
NpDeleteRaises(a, idx) == idx >= Len(a) \/ idx < 0 - Len(a)

\* a - b elementwise on float arrays with numpy broadcasting: equal
\* lengths, or one operand of length 1 stretched over the other.
NpSubRaises(a, b) == Len(a) # Len(b) /\ Len(a) # 1 /\ Len(b) # 1

NpSub(a, b) ==
    LET n  == IF Len(a) >= Len(b) THEN Len(a) ELSE Len(b)
        av(i) == IF Len(a) = 1 THEN a[1] ELSE a[i]
        bv(i) == IF Len(b) = 1 THEN b[1] ELSE b[i]
    IN  [i \in 1..n |-> IF av(i) = NaN \/ bv(i) = NaN THEN NaN ELSE av(i) - bv(i)]

\* s[::-1]
Reverse(s) == [i \in 1..Len(s) |-> s[Len(s) + 1 - i]]

(***************************************************************************)
(* Spectrum files and their ingestion (utils.get_data, get_xy_from_file).  *)
(* A file is its list of data rows <<x, y>> and whether its first line     *)
(* starts with '#' (the RRUFF header form).                                *)
(***************************************************************************)
FileA == [name |-> "a.txt", headered |-> TRUE,
          rows |-> << <<0, 2>>, <<1, 10>>, <<2, 2>>, <<3, 2>>, <<4, 2>> >>]

FileB == [name |-> "b.txt", headered |-> FALSE,
          rows |-> << <<112, 2>>, <<111, 4>>, <<110, 2>>, <<109, 2>>,
                      <<108, 4>>, <<107, 6>>, <<106, 8>>, <<105, 10>>,
                      <<104, 8>>, <<103, 6>>, <<102, 4>>, <<101, 2>>,
                      <<100, 2>> >>]

Files == {FileA, FileB}

\* get_data(file, axis): column n of the rows; a file without the '#'
\* header is returned reversed.
get_data(file, n) ==
    LET col == [i \in 1..Len(file.rows) |-> file.rows[i][n]]
    IN  IF file.headered THEN col ELSE Reverse(col)

\* get_xy_from_file for a well-formed .txt file: x, and y divided by max(y).
get_xy_from_file(file) ==
    LET x == get_data(file, 1)
        y == get_data(file, 2)
        m == SeqMax(y)
    IN  [x |-> x, y |-> [i \in 1..Len(y) |-> (y[i] * Scale) \div m]]

\* Files the dialog can also return: a spectrum under an extension that is
\* not handled, a .txt file with a line of one column, a .txt file of
\* comment lines only, an empty .txt file, and .csv files with and without
\* the columns x and y.
FileDat == [name |-> "c.dat", headered |-> FALSE, rows |-> << <<1, 2>>, <<0, 4>> >>]
FileShortLine == [name |-> "d.txt", headered |-> FALSE,
                  rows |-> << <<1, 2>>, <<0>> >>]
FileComments == [name |-> "e.txt", headered |-> TRUE, rows |-> <<>>]
FileEmpty == [name |-> "f.txt", headered |-> FALSE, rows |-> <<>>]
FileCsv == [name |-> "g.csv", columns |-> <<"x", "y">>,
            rows |-> << <<0, 2>>, <<1, 4>> >>]
FileCsvOther == [name |-> "h.csv", columns |-> <<"wavenumber", "counts">>,
                 rows |-> << <<0, 2>>, <<1, 4>> >>]
OtherFiles ==
    { FileDat, FileShortLine, FileComments, FileEmpty, FileCsv, FileCsvOther }

\* file.name.lower().endswith(suffix), for the names above
endswith(name, suffix) ==
    \E stem \in {"a", "b", "c", "d", "e", "f", "g", "h"} : name = stem \o suffix

\* get_data raises: lines[0] of an empty file, column n of a shorter line.
get_data_raises(file, n) ==
    \/ (~file.headered /\ Len(file.rows) = 0)
    \/ \E i \in 1..Len(file.rows) : Len(file.rows[i]) < n

\* y / max(y), in units of 1/Scale
normalised(y) == [i \in 1..Len(y) |-> (y[i] * Scale) \div SeqMax(y)]

\* get_xy_from_file on any file as (raised, ret): ret is the returned pair,
\* or None where the function raises or returns None.  A .spc file is read
\* by pyspectra and does not occur here.
get_xy_from_file_call(file) ==
    IF endswith(file.name, ".txt")
    THEN IF get_data_raises(file, 1) \/ get_data_raises(file, 2)
              \/ Len(file.rows) = 0
         THEN [raised |-> TRUE, ret |-> None]
         ELSE [raised |-> FALSE,
               ret |-> Some([x |-> get_data(file, 1),
                             y |-> normalised(get_data(file, 2))])]
    ELSE IF endswith(file.name, ".csv")
    THEN IF /\ \E i \in DOMAIN file.columns : file.columns[i] = "x"
            /\ \E i \in DOMAIN file.columns : file.columns[i] = "y"
         THEN IF Len(file.rows) = 0 THEN [raised |-> TRUE, ret |-> None]
              ELSE [raised |-> FALSE,
                    ret |-> Some([x |-> [i \in 1..Len(file.rows) |-> file.rows[i][1]],
                                  y |-> normalised([i \in 1..Len(file.rows) |->
                                                      file.rows[i][2]])])]
         ELSE [raised |-> TRUE, ret |-> None]
    ELSE [raised |-> FALSE, ret |-> None]

\* CommandSpectrum(x, y)
CommandSpectrum(x, y) == [x |-> x, y |-> y]

(***************************************************************************)
(* baseline_als (utils.py).  The sparse solve                              *)
(*      (diag(w) + lam * D D^T) z = w * y_valid                            *)
(* is a call into scipy; it is represented by its stiff limit, in which    *)
(* the penalty forces a flat z and the equation reduces to the weighted    *)
(* mean of y_valid.  What the code itself does is kept as written: the     *)
(* restriction to the valid samples, the weights of 1 of the first         *)
(* iteration, the reweighting rule, the fixed number of iterations and the *)
(* scatter of z back over the missing positions.                           *)
(***************************************************************************)
\* No check of the number of valid samples.
baseline_als_raises_Never(y) == FALSE

\* diags(..., shape=(L_valid, L_valid-2)) raises ValueError below 2 samples.
baseline_als_raises(y) == Len(ValidOnly(y)) < 2

\* spsolve(csc_matrix(Z), w*y_valid); a singular Z (all weights 0) yields NaN.
\* With exactly 2 valid samples D is empty, Z = diag(w) and z = y_valid.
spsolve(w, yv) ==
    LET sw == SeqSum(w)
        swy == SeqSum([i \in 1..Len(yv) |-> w[i] * yv[i]])
    IN  IF Len(yv) = 2
        THEN [i \in 1..2 |-> IF w[i] = 0 THEN NaN ELSE yv[i]]
        ELSE IF sw = 0 THEN [i \in 1..Len(yv) |-> NaN]
        ELSE [i \in 1..Len(yv) |-> swy \div sw]

\* w = p * (y_valid > z_valid) + (1-p) * (y_valid < z_valid);
\* a comparison with NaN is False.
als_reweight(yv, z, p) ==
    [i \in 1..Len(yv) |->
        IF z[i] = NaN THEN 0
        ELSE IF yv[i] > z[i] THEN p
        ELSE IF yv[i] < z[i] THEN WeightScale - p
        ELSE 0]

\* The loop `for i in range(niter)`: n iterations remain, w is the current
\* weight vector, ws the weight vectors the earlier iterations started from
\* and zs the solutions they gave.  The loop has no exit before n reaches
\* 0; an iteration that starts from the weights of an earlier one makes
\* all later iterations repeat those in between, which gives their result
\* without unrolling them.
RECURSIVE als_loop(_, _, _, _, _, _)
als_loop(yv, ws, zs, w, p, n) ==
    IF n = 0 THEN (IF Len(zs) = 0 THEN w ELSE zs[Len(zs)])
    ELSE IF \E k \in 1..Len(ws) : ws[k] = w
    THEN LET k == CHOOSE j \in 1..Len(ws) : ws[j] = w
             period == Len(ws) - k + 1
         IN  zs[k + ((n - 1) % period)]
    ELSE LET z2 == spsolve(w, yv)
         IN  als_loop(yv, Append(ws, w), Append(zs, z2),
                      als_reweight(yv, z2, p), p, n - 1)

\* z = np.empty_like(y); z[:] = nan; z[valid_indices] = z_valid
scatter_valid(y, zv) ==
    LET rank(i) == Len(ValidOnly(SubSeq(y, 1, i)))
    IN  [i \in 1..Len(y) |-> IF y[i] = NaN THEN NaN ELSE zv[rank(i)]]

baseline_als(y, lam, p, niter) ==
    LET yv == ValidOnly(y)
        w0 == [i \in 1..Len(yv) |-> WeightScale]
    IN  scatter_valid(y, als_loop(yv, <<>>, <<>>, w0, p, niter))

(***************************************************************************)
(* get_smoothed_spectrum (utils.py): scipy's savgol_filter with            *)
(* window_length 13, polyorder 3, mode 'interp'.  Each output sample is    *)
(* the least-squares cubic through a window of 13 samples evaluated at     *)
(* that sample: the centred window in the interior, the first and the last *)
(* window at the edges.  The evaluation is linear in the window; row r of  *)
(* SavgolRows / SavgolDen gives the exact rational coefficients of the     *)
(* value at position r of the window.                                      *)
(***************************************************************************)
SavgolDen == 4 * 1001

SavgolRows == <<
 <<2915, 1452, 462, -132, -407, -440, -308, -88, 143, 308, 330, 132, -363>>,
 <<1452, 1100, 792, 528, 308, 132, 0, -88, -132, -132, -88, 0, 132>>,
 <<462, 792, 920, 888, 738, 512, 252, 0, -202, -312, -288, -88, 330>>,
 <<-132, 528, 888, 1004, 932, 728, 448, 148, -116, -288, -312, -132, 308>>,
 <<-407, 308, 738, 932, 939, 808, 588, 328, 77, -116, -202, -132, 143>>,
 <<-440, 132, 512, 728, 808, 780, 672, 512, 328, 148, 0, -88, -88>>,
 <<-308, 0, 252, 448, 588, 672, 700, 672, 588, 448, 252, 0, -308>>,
 <<-88, -88, 0, 148, 328, 512, 672, 780, 808, 728, 512, 132, -440>>,
 <<143, -132, -202, -116, 77, 328, 588, 808, 939, 932, 738, 308, -407>>,
 <<308, -132, -312, -288, -116, 148, 448, 728, 932, 1004, 888, 528, -132>>,
 <<330, -88, -288, -312, -202, 0, 252, 512, 738, 888, 920, 792, 462>>,
 <<132, 0, -88, -132, -132, -88, 0, 132, 308, 528, 792, 1100, 1452>>,
 <<-363, 132, 330, 308, 143, -88, -308, -440, -407, -132, 462, 1452, 2915>> >>

\* savgol_filter raises ValueError when window_length exceeds the data.
savgol_raises(y) == Len(y) < window_length

\* First sample (1-based) of the window used for output sample i.
savgol_window_start(L, i) ==
    LET half == window_length \div 2
    IN  IF i <= half THEN 1
        ELSE IF i > L - half THEN L - window_length + 1
        ELSE i - half

\* Whether np.polyfit of an edge window meets a NaN.  LAPACK may then fail
\* to converge (LinAlgError) or return NaN coefficients.
savgol_edge_has_nan(y) ==
    \E i \in 1..Len(y) :
        /\ y[i] = NaN
        /\ (i <= window_length \/ i > Len(y) - window_length)

savgol_filter(y) ==
    LET L == Len(y)
        out(i) ==
            LET s == savgol_window_start(L, i)
                win == SubSeq(y, s, s + window_length - 1)
                row == SavgolRows[i - s + 1]
            IN  IF \E k \in 1..window_length : win[k] = NaN THEN NaN
                ELSE SeqSum([k \in 1..window_length |-> row[k] * win[k]])
                        \div SavgolDen
    IN  [i \in 1..L |-> out(i)]

get_smoothed_spectrum(y) == savgol_filter(y)

(***************************************************************************)
(* get_peaks (utils.py): scipy's find_peaks, the strict local maxima of y  *)
(* (a flat top counts once, at its middle sample), kept when at least      *)
(* `height` high; height None keeps them all.  Comparisons with NaN are    *)
(* False, so a maximum never has a missing neighbour.                      *)
(***************************************************************************)
local_maxima(y) ==
    LET L == Len(y)
        Lt(a, b) == a # NaN /\ b # NaN /\ a < b
        \* i .. j is a plateau with a rising edge before i and a falling
        \* edge after j
        plateau(i, j) ==
            /\ 1 < i /\ j < L
            /\ \A k \in i..j : y[k] = y[i] /\ y[k] # NaN
            /\ Lt(y[i - 1], y[i])
            /\ Lt(y[j + 1], y[j])
    IN  { m \in 1..L : \E i \in 1..m : \E j \in m..L :
            plateau(i, j) /\ m = (i + j) \div 2 }

RECURSIVE SetToSortedSeq(_)
SetToSortedSeq(S) ==
    IF S = {} THEN <<>>
    ELSE LET m == CHOOSE a \in S : \A b \in S : a <= b
         IN  <<m>> \o SetToSortedSeq(S \ {m})

find_peaks(y, height) ==
    SetToSortedSeq({ i \in local_maxima(y) :
                        IsNone(height) \/ y[i] >= Val(height) })

get_peaks(x, y, height) ==
    LET pk == find_peaks(y, height)
    IN  [x |-> [k \in 1..Len(pk) |-> x[pk[k]]],
         y |-> [k \in 1..Len(pk) |-> y[pk[k]]]]

(***************************************************************************)
(* fit_gauss (utils.py).  The nonlinear least-squares run of lmfit's       *)
(* model.fit is a call into the library; it is represented by the          *)
(* parameter values it starts from (one Gaussian per peak: center = the    *)
(* peak, amplitude = max(y), sigma = 1), which is what it returns when the *)
(* start is already optimal.  The statistics derived from the parameters   *)
(* are computed as the code does.                                          *)
(***************************************************************************)
\* y = np.nan_to_num(y, nan=0)
nan_to_num(y) == [i \in 1..Len(y) |-> IF y[i] = NaN THEN 0 ELSE y[i]]

\* model is None when peaks is empty, and model.fit raises AttributeError;
\* max(y) of an empty y raises ValueError.
fit_gauss_raises(x, y, peaks) == Len(peaks) = 0 \/ Len(y) = 0

model_fit(x, y, peaks) ==
    [i \in 1..Len(peaks) |->
        [center |-> peaks[i], amplitude |-> SeqMax(y), sigma |-> 1]]

\* peak_stats: entry i is the record of 'Peak i'.  Height is lmfit's
\* 0.3989423 * amplitude / sigma, FWHM is sigma * 2.35482 (in 1/FwhmScale).
fit_gauss(x, y, peaks) ==
    LET params == model_fit(x, nan_to_num(y), peaks)
    IN  [i \in 1..Len(peaks) |->
            [Center |-> params[i].center,
             Sigma  |-> params[i].sigma,
             Area   |-> params[i].amplitude,
             FWHM   |-> params[i].sigma * FwhmFactor,
             Height |-> (39894 * params[i].amplitude)
                            \div (FwhmScale * params[i].sigma)]]

(***************************************************************************)
(* The matching engine (utils.py).  The reference database is the Spectra  *)
(* table: a sequence of rows with the columns filename, names,             *)
(* strongest_peak and peaks, in the order the table is scanned.            *)
(***************************************************************************)
\* set(s)
ToSet(s) == { s[i] : i \in DOMAIN s }

\* Every row is returned, whatever its strongest peak.
fetch_filename_and_peaks_filtered_All(db, peaks_set, tolerance) ==
    [i \in 1..Len(db) |-> <<db[i].filename, db[i].peaks>>]

\* cursor.execute(query, query_values): with an empty peaks_set the query is
\* "... WHERE ;" and sqlite3 raises OperationalError (syntax error).
fetch_filename_and_peaks_filtered_raises(peaks_set) == Len(peaks_set) = 0

\* SELECT filename, peaks FROM Spectra WHERE (strongest_peak >= peak - tol
\* AND strongest_peak <= peak + tol) OR ... : one condition per peak.
fetch_filename_and_peaks_filtered(db, peaks_set, tolerance) ==
    LET matching_rows ==
            SelectSeq(db, LAMBDA row :
                \E i \in 1..Len(peaks_set) :
                    /\ row.strongest_peak >= peaks_set[i] - tolerance
                    /\ row.strongest_peak <= peaks_set[i] + tolerance)
    IN  [i \in 1..Len(matching_rows) |->
            <<matching_rows[i].filename, matching_rows[i].peaks>>]

\* A peak matches at the distance tol only.
peaks_within_tolerance_Exact(known_peaks, unknown_peak, tolerance) ==
    \E peak \in known_peaks :
        (IF peak - unknown_peak < 0 THEN unknown_peak - peak
         ELSE peak - unknown_peak) = tolerance

\* The tolerance is exclusive.
peaks_within_tolerance_Strict(known_peaks, unknown_peak, tolerance) ==
    \E peak \in known_peaks :
        (IF peak - unknown_peak < 0 THEN unknown_peak - peak
         ELSE peak - unknown_peak) < tolerance

peaks_within_tolerance(known_peaks, unknown_peak, tolerance) ==
    \E peak \in known_peaks :
        (IF peak - unknown_peak < 0 THEN unknown_peak - peak
         ELSE peak - unknown_peak) <= tolerance

\* The two peak sets have to match each other.
check_peak_superset_Both(db_peaks, unknown_peaks, tolerance) ==
    /\ \A i \in 1..Len(unknown_peaks) :
          peaks_within_tolerance(db_peaks, unknown_peaks[i], tolerance)
    /\ \A peak \in db_peaks :
          \E i \in 1..Len(unknown_peaks) :
              peaks_within_tolerance({peak}, unknown_peaks[i], tolerance)

\* Passes as soon as one unknown peak is matched.
check_peak_superset_Any(db_peaks, unknown_peaks, tolerance) ==
    \E i \in 1..Len(unknown_peaks) :
        peaks_within_tolerance(db_peaks, unknown_peaks[i], tolerance)

check_peak_superset(db_peaks, unknown_peaks, tolerance) ==
    \A i \in 1..Len(unknown_peaks) :
        peaks_within_tolerance(db_peaks, unknown_peaks[i], tolerance)

\* itertools.combinations(range(lo, n + 1), r), in the order it yields them.
RECURSIVE combinations_WithReplacement(_, _, _)
combinations_WithReplacement(lo, n, r) ==
    IF r = 0 THEN << <<>> >>
    ELSE IF lo > n THEN <<>>
    ELSE LET rest == combinations_WithReplacement(lo, n, r - 1)
         IN  [i \in 1..Len(rest) |-> <<lo>> \o rest[i]]
                \o combinations_WithReplacement(lo + 1, n, r)

RECURSIVE combinations(_, _, _)
combinations(lo, n, r) ==
    IF r = 0 THEN << <<>> >>
    ELSE IF lo > n THEN <<>>
    ELSE LET rest == combinations(lo + 1, n, r - 1)
         IN  [i \in 1..Len(rest) |-> <<lo>> \o rest[i]]
                \o combinations(lo + 1, n, r)

\* range(1, 4): the sizes of the combinations searched.
MaxComboSize == 3

\* The call of fetch_filename_and_peaks_filtered is the first statement.
find_spectrum_matches_raises(db, unknown_peaks, tolerance) ==
    fetch_filename_and_peaks_filtered_raises(unknown_peaks)

\* find_spectrum_matches: potential_matches, for r = 1, 2, 3 the list of the
\* filename combinations whose united peak sets cover the unknown peaks.
find_spectrum_matches(db, unknown_peaks, tolerance) ==
    LET rows == fetch_filename_and_peaks_filtered(db, unknown_peaks, tolerance)
        filenames == [i \in 1..Len(rows) |-> rows[i][1]]
        db_peak_sets == [i \in 1..Len(rows) |-> ToSet(rows[i][2])]
        passing(r) ==
            SelectSeq(combinations(1, Len(filenames), r),
                      LAMBDA combo_indices :
                        check_peak_superset(
                            UNION { db_peak_sets[combo_indices[i]] :
                                        i \in 1..Len(combo_indices) },
                            unknown_peaks, tolerance))
    IN  [r \in 1..MaxComboSize |->
            [k \in 1..Len(passing(r)) |->
                [i \in 1..r |-> filenames[passing(r)[k][i]]]]]

\* Mineral names, in the order Python compares the strings.
MineralNames == <<"albite", "calcite", "quartz">>

NameRank(name) == CHOOSE i \in 1..Len(MineralNames) : MineralNames[i] = name

\* sorted(names) for a list of mineral names
RECURSIVE SortedNames(_)
SortedNames(names) ==
    IF names = <<>> THEN <<>>
    ELSE LET k == CHOOSE i \in 1..Len(names) :
                    \A j \in 1..Len(names) :
                        NameRank(names[i]) <= NameRank(names[j])
         IN  <<names[k]>> \o SortedNames([i \in 1..(Len(names) - 1) |->
                                            IF i < k THEN names[i]
                                            ELSE names[i + 1]])

\* dict(cursor.fetchall()) of SELECT filename, names: a later row of the
\* same filename replaces an earlier one.
filename_to_name(db, filename) ==
    LET last == CHOOSE i \in 1..Len(db) :
                    /\ db[i].filename = filename
                    /\ \A j \in (i + 1)..Len(db) : db[j].filename # filename
    IN  db[last].names

\* The names are kept in the order of the filenames.
get_unique_mineral_combinations_optimized_Unsorted(db, combos) ==
    { [i \in 1..Len(combos[k]) |-> filename_to_name(db, combos[k][i])] :
        k \in 1..Len(combos) }

get_unique_mineral_combinations_optimized(db, combos) ==
    { SortedNames([i \in 1..Len(combos[k]) |->
                        filename_to_name(db, combos[k][i])]) :
        k \in 1..Len(combos) }

(***************************************************************************)
(* MainApp state as one record, so that a command's execute and undo are   *)
(* functions from the application state to the application state.          *)
(***************************************************************************)
App == [spectrum |-> spectrum, baseline_data |-> baseline_data,
        baseline_plot |-> baseline_plot, button_baseline |-> button_baseline,
        plot1_log |-> plot1_log, peaks_x |-> peaks_x, peaks_y |-> peaks_y,
        fit_stats_2 |-> fit_stats_2, fit_ref |-> fit_ref,
        fit_count |-> fit_count,
        unknown_spectrum_path |-> unknown_spectrum_path,
        draggableScatter |-> draggableScatter, batch |-> batch]

SetApp(a) ==
    /\ spectrum' = a.spectrum
    /\ baseline_data' = a.baseline_data
    /\ baseline_plot' = a.baseline_plot
    /\ button_baseline' = a.button_baseline
    /\ plot1_log' = a.plot1_log
    /\ peaks_x' = a.peaks_x
    /\ peaks_y' = a.peaks_y
    /\ fit_stats_2' = a.fit_stats_2
    /\ fit_ref' = a.fit_ref
    /\ fit_count' = a.fit_count
    /\ unknown_spectrum_path' = a.unknown_spectrum_path
    /\ draggableScatter' = a.draggableScatter
    /\ batch' = a.batch

\* MainApp.__init__
InitApp == [spectrum |-> None, baseline_data |-> None, baseline_plot |-> None,
            button_baseline |-> "Estimate Baseline", plot1_log |-> <<>>,
            peaks_x |-> <<>>, peaks_y |-> <<>>, fit_stats_2 |-> None,
            fit_ref |-> 0, fit_count |-> 0,
            unknown_spectrum_path |-> None, draggableScatter |-> None,
            batch |-> [batch_files |-> <<>>, current_batch_file_index |-> 0,
                       current_batch_step_index |-> 0, cropping |-> FALSE]]

\* The outcome of running a method of a command: whether it raised, the
\* application state it left and the command object as it left it.
Outcome(raised, a, cmd) == [raised |-> raised, app |-> a, cmd |-> cmd]

\* plot1_log.addItem(text)
addItem(a, text) == [a EXCEPT !.plot1_log = Append(@, text)]

\* plot1.plot(x, y) raises when x and y differ in length.
plot_raises(x, y) == Len(x) # Len(y)

\* ", ".join(str(v) for v in s)
RECURSIVE JoinStr(_)
JoinStr(s) ==
    IF s = <<>> THEN ""
    ELSE IF Len(s) = 1 THEN ToString(s[1])
    ELSE ToString(s[1]) \o ", " \o JoinStr(Tail(s))

\* sorted(s)
RECURSIVE Sorted(_)
Sorted(s) ==
    IF s = <<>> THEN <<>>
    ELSE LET k == CHOOSE i \in 1..Len(s) : \A j \in 1..Len(s) : s[i] <= s[j]
         IN  <<s[k]>> \o Sorted([i \in 1..(Len(s) - 1) |->
                                    IF i < k THEN s[i] ELSE s[i + 1]])

\* MainApp.refresh_peaks_view: logs the (first 15) peak positions, sorted.
refresh_peaks_view(a) ==
    IF Len(a.peaks_x) < 15
    THEN addItem(a, "Peaks: " \o JoinStr(Sorted(a.peaks_x)))
    ELSE addItem(a, "Peaks: " \o JoinStr(Sorted(SubSeq(a.peaks_x, 1, 15)))
                        \o "...")

(***************************************************************************)
(* The Command classes (commands.py).  A command is a record of the        *)
(* attributes its constructor sets; an attribute that only execute() sets  *)
(* is None until then.  X_init is the constructor, X_init_raises tells     *)
(* when the constructor raises, X_execute and X_undo are the two methods.  *)
(***************************************************************************)

\* ---- LoadSpectrumCommand ------------------------------------------------
LoadSpectrumCommand_init(a, xdata, ydata) ==
    [kind |-> "Load",
     new_spectrum |-> CommandSpectrum(xdata, ydata),
     old_spectrum |-> a.spectrum,
     old_plot1_log |-> <<>>]

LoadSpectrumCommand_execute(c, a) ==
    LET c1 == [c EXCEPT !.old_plot1_log = @ \o a.plot1_log]
        a1 == [a EXCEPT !.plot1_log = <<>>,
                        !.button_baseline = "Estimate Baseline",
                        !.spectrum = Some(c.new_spectrum)]
    IN  IF IsNone(a.unknown_spectrum_path)
        THEN Outcome(TRUE, a1, c1)
        ELSE Outcome(FALSE,
                     addItem(a1, "Loaded file: " \o Val(a.unknown_spectrum_path)),
                     c1)

LoadSpectrumCommand_undo(c, a) ==
    LET a1 == IF c.old_plot1_log # <<>>
              THEN [a EXCEPT !.plot1_log = c.old_plot1_log]
              ELSE a
    IN  Outcome(FALSE, [a1 EXCEPT !.spectrum = c.old_spectrum], c)

\* ---- EstimateBaselineCommand --------------------------------------------
EstimateBaselineCommand_init(a, estimated_baseline) ==
    [kind |-> "EstimateBaseline",
     new_baseline |-> estimated_baseline,
     old_baseline |-> a.baseline_data]

EstimateBaselineCommand_execute(c, a) ==
    LET a1 == addItem([a EXCEPT !.button_baseline = "Apply Baseline Correction"],
                      "Baseline estimate calculated")
        a2 == [a1 EXCEPT !.baseline_data = Some(c.new_baseline)]
    IN  IF IsNone(a2.spectrum)
        THEN Outcome(TRUE, a2, c)
        ELSE IF plot_raises(Val(a2.spectrum).x, c.new_baseline)
        THEN Outcome(TRUE, a2, c)
        ELSE Outcome(FALSE, [a2 EXCEPT !.baseline_plot = Some(c.new_baseline)], c)

\* Variant of EstimateBaselineCommand.undo that leaves the button text alone.
EstimateBaselineCommand_undo_KeepsButton(c, a) ==
    LET a1 == [a EXCEPT !.baseline_data = c.old_baseline]
        a2 == IF ~IsNone(a1.baseline_plot)
              THEN [a1 EXCEPT !.baseline_data = None]
              ELSE a1
    IN  IF ~IsNone(a2.baseline_data)
        THEN IF IsNone(a2.spectrum)
             THEN Outcome(TRUE, a2, c)
             ELSE IF plot_raises(Val(a2.spectrum).x, Val(a2.baseline_data))
             THEN Outcome(TRUE, a2, c)
             ELSE Outcome(FALSE,
                          addItem([a2 EXCEPT !.baseline_plot = a2.baseline_data],
                                  "Baseline estimate undone"), c)
        ELSE Outcome(FALSE, addItem(a2, "Baseline estimate undone"), c)

EstimateBaselineCommand_undo(c, a) ==
    LET a1 == [a EXCEPT !.button_baseline = "Estimate Baseline",
                        !.baseline_data = c.old_baseline]
        \* if self.app.baseline_plot is not None: ... baseline_data = None
        a2 == IF ~IsNone(a1.baseline_plot)
              THEN [a1 EXCEPT !.baseline_data = None]
              ELSE a1
    IN  IF ~IsNone(a2.baseline_data)
        THEN IF IsNone(a2.spectrum)
             THEN Outcome(TRUE, a2, c)
             ELSE IF plot_raises(Val(a2.spectrum).x, Val(a2.baseline_data))
             THEN Outcome(TRUE, a2, c)
             ELSE Outcome(FALSE,
                          addItem([a2 EXCEPT !.baseline_plot = a2.baseline_data],
                                  "Baseline estimate undone"), c)
        ELSE Outcome(FALSE, addItem(a2, "Baseline estimate undone"), c)

\* ---- CorrectBaselineCommand ---------------------------------------------
CorrectBaselineCommand_init_raises(a) ==
    \/ IsNone(a.spectrum)
    \/ /\ ~IsNone(a.baseline_data)
       /\ NpSubRaises(Val(a.spectrum).y, Val(a.baseline_data))

\* A sign error in the subtraction: the baseline is added to the intensities.
CorrectBaselineCommand_init_Adds(a) ==
    [kind |-> "CorrectBaseline",
     old_spectrum |-> a.spectrum,
     new_spectrum |->
        IF ~IsNone(a.baseline_data)
        THEN CommandSpectrum(Val(a.spectrum).x,
                [i \in 1..Len(Val(a.spectrum).y) |->
                    IF Val(a.spectrum).y[i] = NaN \/ Val(a.baseline_data)[i] = NaN
                    THEN NaN
                    ELSE Val(a.spectrum).y[i] + Val(a.baseline_data)[i]])
        ELSE CommandSpectrum(Val(a.spectrum).x, Val(a.spectrum).y),
     old_baseline_data |-> a.baseline_data]

CorrectBaselineCommand_init(a) ==
    [kind |-> "CorrectBaseline",
     old_spectrum |-> a.spectrum,
     new_spectrum |->
        IF ~IsNone(a.baseline_data)
        THEN CommandSpectrum(Val(a.spectrum).x,
                             NpSub(Val(a.spectrum).y, Val(a.baseline_data)))
        ELSE CommandSpectrum(Val(a.spectrum).x, Val(a.spectrum).y),
     old_baseline_data |-> a.baseline_data]

CorrectBaselineCommand_execute(c, a) ==
    LET a1 == addItem([a EXCEPT !.button_baseline = "Estimate Baseline"],
                      "Baseline corrected")
        a2 == [a1 EXCEPT !.spectrum = Some(c.new_spectrum)]
    IN  Outcome(plot_raises(c.new_spectrum.x, c.new_spectrum.y), a2, c)

CorrectBaselineCommand_undo(c, a) ==
    LET a1 == [a EXCEPT !.button_baseline = "Apply Baseline Correction",
                        !.spectrum = c.old_spectrum,
                        !.baseline_data = c.old_baseline_data]
    IN  IF ~IsNone(a1.spectrum)
           /\ plot_raises(Val(a1.spectrum).x, Val(a1.spectrum).y)
        THEN Outcome(TRUE, a1, c)
        ELSE IF ~IsNone(a1.baseline_data)
        THEN IF IsNone(a1.spectrum)
             THEN Outcome(TRUE, a1, c)
             ELSE IF plot_raises(Val(a1.spectrum).x, Val(a1.baseline_data))
             THEN Outcome(TRUE, a1, c)
             ELSE Outcome(FALSE,
                          addItem([a1 EXCEPT !.baseline_plot = a1.baseline_data],
                                  "Baseline restored"), c)
        ELSE Outcome(FALSE, addItem(a1, "Baseline restored"), c)

\* ---- CropCommand ----------------------------------------------------------
CropCommand_init_raises(a) == IsNone(a.spectrum)

\* Variant of _get_cropped_spectrum with an open upper end (x < crop_end_x).
get_cropped_spectrum_HalfOpen(old_spectrum, crop_start_x, crop_end_x) ==
    LET indices_to_crop ==
            { i \in 1..Len(old_spectrum.x) :
                old_spectrum.x[i] >= crop_start_x /\ old_spectrum.x[i] < crop_end_x }
        new_y == [i \in 1..Len(old_spectrum.y) |->
                    IF i \in indices_to_crop THEN NaN ELSE old_spectrum.y[i]]
    IN  CommandSpectrum(old_spectrum.x, new_y)

\* Variant of _get_cropped_spectrum that removes the samples in the range.
get_cropped_spectrum_Removes(old_spectrum, crop_start_x, crop_end_x) ==
    LET keep == { i \in 1..Len(old_spectrum.x) :
                    ~(old_spectrum.x[i] >= crop_start_x
                      /\ old_spectrum.x[i] <= crop_end_x) }
        idx == SetToSortedSeq(keep)
    IN  CommandSpectrum([i \in 1..Len(idx) |-> old_spectrum.x[idx[i]]],
                        [i \in 1..Len(idx) |-> old_spectrum.y[idx[i]]])

\* CropCommand._get_cropped_spectrum
get_cropped_spectrum(old_spectrum, crop_start_x, crop_end_x) ==
    LET indices_to_crop ==
            { i \in 1..Len(old_spectrum.x) :
                old_spectrum.x[i] >= crop_start_x /\ old_spectrum.x[i] <= crop_end_x }
        new_y == [i \in 1..Len(old_spectrum.y) |->
                    IF i \in indices_to_crop THEN NaN ELSE old_spectrum.y[i]]
    IN  CommandSpectrum(old_spectrum.x, new_y)

CropCommand_init(a, crop_start_x, crop_end_x) ==
    [kind |-> "Crop",
     crop_start_x |-> crop_start_x,
     crop_end_x |-> crop_end_x,
     old_spectrum |-> a.spectrum,
     new_spectrum |-> get_cropped_spectrum(Val(a.spectrum), crop_start_x, crop_end_x)]

CropCommand_execute(c, a) ==
    LET a1 == [a EXCEPT !.spectrum = Some(c.new_spectrum)]
    IN  IF plot_raises(c.new_spectrum.x, c.new_spectrum.y)
        THEN Outcome(TRUE, a1, c)
        ELSE Outcome(FALSE,
                     addItem(a1, "Cropped spectrum from " \o ToString(c.crop_start_x)
                                 \o " to " \o ToString(c.crop_end_x) \o " cm^-1"),
                     c)

CropCommand_undo(c, a) ==
    LET a1 == [a EXCEPT !.spectrum = c.old_spectrum]
    IN  IF IsNone(a1.spectrum) THEN Outcome(FALSE, a1, c)
        ELSE IF plot_raises(Val(a1.spectrum).x, Val(a1.spectrum).y)
        THEN Outcome(TRUE, a1, c)
        ELSE Outcome(FALSE,
                     addItem(a1, "Undid crop from " \o ToString(c.crop_start_x)
                                 \o " to " \o ToString(c.crop_end_x) \o " cm^-1"),
                     c)

\* ---- SmoothCommand --------------------------------------------------------
\* lapack_fails: whether np.polyfit raises on an edge window holding a NaN.
SmoothCommand_init_raises(a, lapack_fails) ==
    \/ IsNone(a.spectrum)
    \/ savgol_raises(Val(a.spectrum).y)
    \/ (lapack_fails /\ savgol_edge_has_nan(Val(a.spectrum).y))

SmoothCommand_init(a) ==
    [kind |-> "Smooth",
     old_spectrum |-> a.spectrum,
     new_spectrum |-> CommandSpectrum(Val(a.spectrum).x,
                                      get_smoothed_spectrum(Val(a.spectrum).y))]

SmoothCommand_execute(c, a) ==
    LET a1 == [a EXCEPT !.spectrum = Some(c.new_spectrum)]
    IN  IF plot_raises(c.new_spectrum.x, c.new_spectrum.y)
        THEN Outcome(TRUE, a1, c)
        ELSE Outcome(FALSE, addItem(a1, "Smoothed spectrum"), c)

SmoothCommand_undo(c, a) ==
    LET a1 == [a EXCEPT !.spectrum = c.old_spectrum]
    IN  IF IsNone(a1.spectrum) THEN Outcome(FALSE, a1, c)
        ELSE IF plot_raises(Val(a1.spectrum).x, Val(a1.spectrum).y)
        THEN Outcome(TRUE, a1, c)
        ELSE Outcome(FALSE, addItem(a1, "Undid spectrum smoothing"), c)

\* ---- AddPeakPointCommand --------------------------------------------------
AddPeakPointCommand_init(a, x, y) ==
    [kind |-> "AddPeakPoint", x |-> x, y |-> y,
     old_peaks_x |-> None, old_peaks_y |-> None]

AddPeakPointCommand_execute(c, a) ==
    LET c1 == [c EXCEPT !.old_peaks_x = Some(a.peaks_x),
                        !.old_peaks_y = Some(a.peaks_y)]
        a1 == [a EXCEPT !.peaks_x = NpAppend(a.peaks_x, c.x),
                        !.peaks_y = NpAppend(a.peaks_y, c.y)]
    IN  Outcome(FALSE, refresh_peaks_view(a1), c1)

\* self.old_peaks_x does not exist before execute(): AttributeError.
AddPeakPointCommand_undo(c, a) ==
    IF IsNone(c.old_peaks_x) THEN Outcome(TRUE, a, c)
    ELSE IF IsNone(c.old_peaks_y)
    THEN Outcome(TRUE, [a EXCEPT !.peaks_x = Val(c.old_peaks_x)], c)
    ELSE Outcome(FALSE,
                 refresh_peaks_view([a EXCEPT !.peaks_x = Val(c.old_peaks_x),
                                              !.peaks_y = Val(c.old_peaks_y)]),
                 c)

\* ---- RemovePeakPointCommand -----------------------------------------------
RemovePeakPointCommand_init(a, idx) ==
    [kind |-> "RemovePeakPoint", idx |-> idx,
     old_peaks_x |-> None, old_peaks_y |-> None]

\* Deletes the last pair whatever the index is.
RemovePeakPointCommand_execute_Pops(c, a) ==
    LET c1 == [c EXCEPT !.old_peaks_x = Some(a.peaks_x),
                        !.old_peaks_y = Some(a.peaks_y)]
    IN  IF NpDeleteRaises(a.peaks_x, c.idx) THEN Outcome(TRUE, a, c1)
        ELSE Outcome(FALSE,
                     refresh_peaks_view(
                        [a EXCEPT !.peaks_x = SubSeq(a.peaks_x, 1, Len(a.peaks_x) - 1),
                                  !.peaks_y = SubSeq(a.peaks_y, 1, Len(a.peaks_y) - 1)]),
                     c1)

\* Variant of RemovePeakPointCommand.execute that removes the last peak when
\* idx lies beyond it.
RemovePeakPointCommand_execute_Clips(c, a) ==
    LET c1 == [c EXCEPT !.old_peaks_x = Some(a.peaks_x),
                        !.old_peaks_y = Some(a.peaks_y)]
        ix == IF c.idx >= Len(a.peaks_x) THEN Len(a.peaks_x) - 1 ELSE c.idx
    IN  IF Len(a.peaks_x) = 0 \/ NpDeleteRaises(a.peaks_x, ix)
        THEN Outcome(TRUE, a, c1)
        ELSE Outcome(FALSE,
                     refresh_peaks_view(
                        [a EXCEPT !.peaks_x = NpDelete(a.peaks_x, ix),
                                  !.peaks_y = NpDelete(a.peaks_y, ix)]),
                     c1)

RemovePeakPointCommand_execute(c, a) ==
    LET c1 == [c EXCEPT !.old_peaks_x = Some(a.peaks_x),
                        !.old_peaks_y = Some(a.peaks_y)]
    IN  IF NpDeleteRaises(a.peaks_x, c.idx) THEN Outcome(TRUE, a, c1)
        ELSE LET a1 == [a EXCEPT !.peaks_x = NpDelete(a.peaks_x, c.idx)]
             IN  IF NpDeleteRaises(a.peaks_y, c.idx) THEN Outcome(TRUE, a1, c1)
                 ELSE Outcome(FALSE,
                              refresh_peaks_view(
                                [a1 EXCEPT !.peaks_y = NpDelete(a.peaks_y, c.idx)]),
                              c1)

RemovePeakPointCommand_undo(c, a) ==
    IF IsNone(c.old_peaks_x) THEN Outcome(TRUE, a, c)
    ELSE IF IsNone(c.old_peaks_y)
    THEN Outcome(TRUE, [a EXCEPT !.peaks_x = Val(c.old_peaks_x)], c)
    ELSE Outcome(FALSE,
                 refresh_peaks_view([a EXCEPT !.peaks_x = Val(c.old_peaks_x),
                                              !.peaks_y = Val(c.old_peaks_y)]),
                 c)

\* ---- FitPeaksCommand2 -----------------------------------------------------
\* old_fit_stats is app.fit_stats_2.copy(), a shallow copy: it holds the
\* per-peak dicts of app.fit_stats_2 (old_fit_ref).  undo() hands a shallow
\* copy of old_fit_stats back, that is the same per-peak dicts again.
\* min(self.app.spectrum.x) raises without a spectrum and on an empty x.
FitPeaksCommand2_init_raises(a) ==
    IsNone(a.spectrum) \/ Len(Val(a.spectrum).x) = 0

FitPeaksCommand2_init(a, peaks) ==
    [kind |-> "FitPeaks", peaks |-> peaks,
     old_fit_stats |-> a.fit_stats_2, old_fit_ref |-> a.fit_ref,
     new_fit_stats |-> None, new_fit_ref |-> 0]

FitPeaksCommand2_execute(c, a) ==
    IF IsNone(a.spectrum) THEN Outcome(TRUE, a, c)
    ELSE IF fit_gauss_raises(Val(a.spectrum).x, Val(a.spectrum).y, c.peaks)
    THEN Outcome(TRUE, a, c)
    ELSE LET fit_stats == fit_gauss(Val(a.spectrum).x, Val(a.spectrum).y, c.peaks)
         IN  Outcome(FALSE,
                     [a EXCEPT !.fit_stats_2 = Some(fit_stats),
                               !.fit_ref = a.fit_count + 1,
                               !.fit_count = a.fit_count + 1],
                     [c EXCEPT !.new_fit_stats = Some(fit_stats),
                               !.new_fit_ref = a.fit_count + 1])

FitPeaksCommand2_undo(c, a) ==
    Outcome(FALSE, [a EXCEPT !.fit_stats_2 = c.old_fit_stats,
                             !.fit_ref = c.old_fit_ref], c)

\* ---- the discretized baseline ---------------------------------------------
\* config['discrete baseline step size']
discrete_baseline_step_size == 4

\* np.arange(start, stop, step) for a positive step
np_arange(start, stop, step) ==
    [k \in 1..(IF stop > start THEN (stop - start + step - 1) \div step ELSE 0)
        |-> start + (k - 1) * step]

\* numpy's search of the interval of key in arr (at most four sample
\* points: the linear search; on increasing arr any search finds the same):
\* the 0-based j with arr[j] <= key < arr[j+1], looked for from i = 1 on.
RECURSIVE linear_search(_, _, _)
linear_search(key, arr, i) ==
    IF i < Len(arr) /\ key >= arr[i + 1] THEN linear_search(key, arr, i + 1)
    ELSE i - 1

\* np.interp(x, xp, fp) raises on an empty xp and on fp of another length.
np_interp_raises(xp, fp) == Len(xp) = 0 \/ Len(xp) # Len(fp)

\* One value of np.interp: fp[-1] right of the samples, fp[0] left of them,
\* fp[j] on a sample, the line through samples j and j+1 between them.
\* xp is not checked to be increasing.
interp_value(x_val, xp, fp) ==
    IF x_val > xp[Len(xp)] THEN fp[Len(xp)]
    ELSE IF x_val < xp[1] THEN fp[1]
    ELSE LET j == linear_search(x_val, xp, 1) + 1
         IN  IF j = Len(xp) THEN fp[j]
             ELSE IF xp[j] = x_val THEN fp[j]
             ELSE IF fp[j] = NaN \/ fp[j + 1] = NaN THEN NaN
             ELSE fp[j] + ((x_val - xp[j]) * (fp[j + 1] - fp[j]))
                              \div (xp[j + 1] - xp[j])

np_interp(x, xp, fp) == [i \in 1..Len(x) |-> interp_value(x[i], xp, fp)]

\* MainApp.update_discretized_baseline on session a: (raised, session after)
update_discretized_baseline(a) ==
    IF IsNone(a.draggableScatter) \/ IsNone(a.spectrum) THEN [raised |-> TRUE, app |-> a]
    ELSE LET data == Val(a.draggableScatter)
         IN  IF np_interp_raises(data.x, data.y) THEN [raised |-> TRUE, app |-> a]
             ELSE [raised |-> FALSE,
                   app |-> [a EXCEPT !.baseline_data =
                               Some(np_interp(Val(a.spectrum).x, data.x, data.y))]]

\* data['x'][index] = x; data['y'][index] = y
SetPoint(a, ix, x, y) ==
    [a EXCEPT !.draggableScatter =
        Some([x |-> [Val(a.draggableScatter).x EXCEPT ![ix + 1] = x],
              y |-> [Val(a.draggableScatter).y EXCEPT ![ix + 1] = y]])]

\* data['x'][index] raises without a scatter and for an index beyond it.
SetPointRaises(a, ix) ==
    IsNone(a.draggableScatter) \/ ix >= Len(Val(a.draggableScatter).x)

\* ---- PointDragCommand ---------------------------------------------------
PointDragCommand_init(a, ix, startX, startY, endX, endY) ==
    [kind |-> "PointDrag", index |-> ix, startX |-> startX, startY |-> startY,
     endX |-> endX, endY |-> endY]

PointDragCommand_execute(c, a) ==
    IF SetPointRaises(a, c.index) THEN Outcome(TRUE, a, c)
    ELSE LET u == update_discretized_baseline(SetPoint(a, c.index, c.endX, c.endY))
         IN  Outcome(u.raised, u.app, c)

PointDragCommand_undo_Stale(c, a) ==
    IF SetPointRaises(a, c.index) THEN Outcome(TRUE, a, c)
    ELSE Outcome(FALSE, SetPoint(a, c.index, c.startX, c.startY), c)

PointDragCommand_undo(c, a) ==
    IF SetPointRaises(a, c.index) THEN Outcome(TRUE, a, c)
    ELSE LET u == update_discretized_baseline(SetPoint(a, c.index, c.startX, c.startY))
         IN  Outcome(u.raised, u.app, c)

\* ---- dynamic dispatch of command.execute() and command.undo() -------------
Execute(c, a) ==
    CASE c.kind = "Load"             -> LoadSpectrumCommand_execute(c, a)
      [] c.kind = "EstimateBaseline" -> EstimateBaselineCommand_execute(c, a)
      [] c.kind = "CorrectBaseline"  -> CorrectBaselineCommand_execute(c, a)
      [] c.kind = "Crop"             -> CropCommand_execute(c, a)
      [] c.kind = "Smooth"           -> SmoothCommand_execute(c, a)
      [] c.kind = "AddPeakPoint"     -> AddPeakPointCommand_execute(c, a)
      [] c.kind = "RemovePeakPoint"  -> RemovePeakPointCommand_execute(c, a)
      [] c.kind = "FitPeaks"         -> FitPeaksCommand2_execute(c, a)
      [] c.kind = "PointDrag"        -> PointDragCommand_execute(c, a)

Undo(c, a) ==
    CASE c.kind = "Load"             -> LoadSpectrumCommand_undo(c, a)
      [] c.kind = "EstimateBaseline" -> EstimateBaselineCommand_undo(c, a)
      [] c.kind = "CorrectBaseline"  -> CorrectBaselineCommand_undo(c, a)
      [] c.kind = "Crop"             -> CropCommand_undo(c, a)
      [] c.kind = "Smooth"           -> SmoothCommand_undo(c, a)
      [] c.kind = "AddPeakPoint"     -> AddPeakPointCommand_undo(c, a)
      [] c.kind = "RemovePeakPoint"  -> RemovePeakPointCommand_undo(c, a)
      [] c.kind = "FitPeaks"         -> FitPeaksCommand2_undo(c, a)
      [] c.kind = "PointDrag"        -> PointDragCommand_undo(c, a)

(***************************************************************************)
(* CommandHistory (commands.py).  Each method is a function of the history *)
(* h = [commands, index] and the application state; its result is the      *)
(* history and the application state it leaves and whether it raised.      *)
(***************************************************************************)
History(cs, ix) == [commands |-> cs, index |-> ix]

Result(raised, h, a) == [raised |-> raised, h |-> h, app |-> a]

\* CommandHistory.__init__
CommandHistory_init == History(<<>>, -1)

\* Variant of CommandHistory.execute that keeps the commands beyond the
\* cursor (no `self.commands = self.commands[:self.index + 1]`).
CommandHistory_execute_NoTruncate(h, a, command) ==
    LET r == Execute(command, a)
    IN  IF r.raised
        THEN Result(TRUE, h, r.app)
        ELSE Result(FALSE, History(Append(h.commands, r.cmd), h.index + 1), r.app)

\* Variant of CommandHistory.execute that moves the cursor before it calls
\* command.execute().
CommandHistory_execute_CountsFirst(h, a, command) ==
    LET truncated == SubSeq(h.commands, 1, h.index + 1)
        r == Execute(command, a)
    IN  IF r.raised
        THEN Result(TRUE, History(truncated, h.index + 1), r.app)
        ELSE Result(FALSE, History(Append(truncated, r.cmd), h.index + 1), r.app)

\* Variant of CommandHistory.execute that appends the command before it
\* calls command.execute().
CommandHistory_execute_AppendsFirst(h, a, command) ==
    LET truncated == SubSeq(h.commands, 1, h.index + 1)
        r == Execute(command, a)
    IN  IF r.raised
        THEN Result(TRUE, History(Append(truncated, command), h.index), r.app)
        ELSE Result(FALSE, History(Append(truncated, r.cmd), h.index + 1), r.app)

\* CommandHistory.execute(command)
CommandHistory_execute(h, a, command) ==
    LET truncated == SubSeq(h.commands, 1, h.index + 1)
        r == Execute(command, a)
    IN  IF r.raised
        THEN Result(TRUE, History(truncated, h.index), r.app)
        ELSE Result(FALSE, History(Append(truncated, r.cmd), h.index + 1), r.app)

\* Variant of CommandHistory.undo without the `if self.index >= 0` guard:
\* commands[-1] is the last command, or an IndexError on an empty list.
CommandHistory_undo_Unguarded(h, a) ==
    IF h.index < 0 /\ h.commands = <<>> THEN Result(TRUE, h, a)
    ELSE LET r == Undo(h.commands[IF h.index < 0 THEN Len(h.commands)
                                  ELSE h.index + 1], a)
         IN  IF r.raised
             THEN Result(TRUE, h, r.app)
             ELSE Result(FALSE, History(h.commands, h.index - 1), r.app)

\* Variant of CommandHistory.undo that pops the command it undoes.
CommandHistory_undo_Pops(h, a) ==
    IF h.index < 0 THEN Result(FALSE, h, a)
    ELSE LET r == Undo(h.commands[h.index + 1], a)
         IN  IF r.raised
             THEN Result(TRUE, h, r.app)
             ELSE Result(FALSE,
                         History(SubSeq(h.commands, 1, h.index), h.index - 1),
                         r.app)

\* CommandHistory.undo()
CommandHistory_undo(h, a) ==
    IF h.index < 0 THEN Result(FALSE, h, a)
    ELSE LET r == Undo(h.commands[h.index + 1], a)
         IN  IF r.raised
             THEN Result(TRUE, h, r.app)
             ELSE Result(FALSE, History(h.commands, h.index - 1), r.app)

\* Variant of CommandHistory.redo that executes the next command and leaves
\* the cursor where it was.
CommandHistory_redo_KeepsCursor(h, a) ==
    IF h.index = Len(h.commands) - 1 THEN Result(FALSE, h, a)
    ELSE LET ix == h.index + 1
             r  == Execute(h.commands[ix + 1], a)
         IN  Result(r.raised,
                    History([h.commands EXCEPT ![ix + 1] = r.cmd], h.index),
                    r.app)

\* CommandHistory.redo()
CommandHistory_redo(h, a) ==
    IF h.index = Len(h.commands) - 1 THEN Result(FALSE, h, a)
    ELSE LET ix == h.index + 1
             r  == Execute(h.commands[ix + 1], a)
         IN  Result(r.raised,
                    History([h.commands EXCEPT ![ix + 1] = r.cmd], ix),
                    r.app)

(***************************************************************************)
(* History variables.  They record what happened and are read by no        *)
(* callback.                                                               *)
(*   lastOp  the callback that ran last: its name, whether it raised,      *)
(*           whether it returned at a guard without doing anything, how    *)
(*           many commands beyond the cursor it dropped, and the command   *)
(*           it handed to CommandHistory.execute (None if it did not).     *)
(*   pre     pre[i] is the session as it was just before commands[i] was   *)
(*           executed by CommandHistory.execute.                           *)
(*   run     commands[run.lo .. ] were executed one after the other with   *)
(*           nothing in between, and since then there were only undos      *)
(*           (run.undoing) or nothing at all.                              *)
(*   cycle   after such a run: cycle.k undos followed by cycle.r redos,    *)
(*           none of them below run.lo; cycle.base is the state in which   *)
(*           the first of the undos was called.                            *)
(*   trail   trail[i] holds, for commands[i]: the edit log just before     *)
(*           (log0) and just after (log1) CommandHistory.execute ran it,   *)
(*           and the session and the edit log just before it was last      *)
(*           run, by execute or by redo (session, log).                    *)
(***************************************************************************)
H == History(commands, index)

Op(name, raised, noop, dropped) ==
    [name |-> name, raised |-> raised, noop |-> noop, dropped |-> dropped,
     cmd |-> None]

NoCycle == [base |-> None, k |-> 0, r |-> 0]

NoRun(h) == [lo |-> Len(h.commands) + 1, undoing |-> FALSE]

Snapshot == [session |-> session, plot1_log |-> plot1_log, index |-> index]

SetHistory(h) == commands' = h.commands /\ index' = h.index

\* A callback that raised before it reached the history, or returned at once.
Untouched(name, raised) ==
    /\ lastOp' = Op(name, raised, ~raised, 0)
    /\ nops' = nops + 1
    /\ UNCHANGED <<commands, index, app, matching, pre, run, cycle, trail>>

\* A callback that ended in self.command_history.execute(command), called
\* with the session as the callback had left it (a).
Submitted(a, command) ==
  LET res == CommandHistory_execute(H, a, command) IN
    /\ SetHistory(res.h)
    /\ SetApp(res.app)
    /\ lastOp' = [Op("execute", res.raised, FALSE, Len(commands) - (index + 1))
                    EXCEPT !.cmd = Some(command)]
    /\ nops' = nops + 1
    /\ cycle' = NoCycle
    /\ IF res.raised
       THEN /\ pre' = SubSeq(pre, 1, index + 1)
            /\ trail' = SubSeq(trail, 1, index + 1)
            /\ run' = NoRun(res.h)
       ELSE /\ pre' = Append(SubSeq(pre, 1, Len(res.h.commands) - 1), session)
            /\ trail' = Append(SubSeq(trail, 1, Len(res.h.commands) - 1),
                               [log0 |-> plot1_log, log1 |-> res.app.plot1_log,
                                session |-> session, log |-> plot1_log])
            /\ run' = [lo |-> IF run.undoing \/ run.lo > Len(res.h.commands)
                              THEN Len(res.h.commands) ELSE run.lo,
                       undoing |-> FALSE]

Executed(a, command) == Submitted(a, command) /\ UNCHANGED matching

\* A callback that changed the session without going through the history.
Direct(name, a) ==
    /\ SetApp(a)
    /\ lastOp' = Op(name, FALSE, FALSE, 0)
    /\ nops' = nops + 1
    /\ cycle' = NoCycle
    /\ run' = NoRun(H)
    /\ UNCHANGED <<commands, index, matching, pre, trail>>

(***************************************************************************)
(* MainApp callbacks (gui.py).                                             *)
(***************************************************************************)
\* lineedit_lambda: the smoothing parameter typed by the user.
lam_default == 100000

\* Crop regions the user can drag: (start_x, end_x).
CropRegions == { <<1, 2>>, <<99, 101>> }

\* Points the user can click in 'add' mode: (x, y).
ClickPoints == { <<2, 5>>, <<105, 4>> }

\* textbox_height of find_peaks: empty, or a height.
Heights == { None, Some(3) }

\* MainApp.load_unknown_spectrum, the file dialog returning `file`.
load_unknown_spectrum(file) ==
    LET a1  == [App EXCEPT !.unknown_spectrum_path = Some(file.name)]
        xy  == get_xy_from_file(file)
        cmd == LoadSpectrumCommand_init(a1, xy.x, xy.y)
    IN  Executed(a1, cmd)

\* MainApp.baseline_callback
baseline_callback ==
    IF button_baseline = "Estimate Baseline"
    THEN IF IsNone(spectrum) THEN Untouched("baseline_callback", TRUE)
         ELSE IF baseline_als_raises(Val(spectrum).y)
         THEN Untouched("baseline_callback", TRUE)
         ELSE Executed(App,
                EstimateBaselineCommand_init(App,
                    baseline_als(Val(spectrum).y, lam_default, p_default,
                                 niter_default)))
    ELSE IF CorrectBaselineCommand_init_raises(App)
         THEN Untouched("baseline_callback", TRUE)
         ELSE Executed(App, CorrectBaselineCommand_init(App))

\* MainApp.apply_crop with crop_region set to (crop_start_x, crop_end_x).
apply_crop(crop_start_x, crop_end_x) ==
    IF CropCommand_init_raises(App) THEN Untouched("apply_crop", TRUE)
    ELSE Executed(App, CropCommand_init(App, crop_start_x, crop_end_x))

\* MainApp.smooth_spectrum
smooth_spectrum(lapack_fails) ==
    IF SmoothCommand_init_raises(App, lapack_fails)
    THEN Untouched("smooth_spectrum", TRUE)
    ELSE Executed(App, SmoothCommand_init(App))

\* MainApp.on_point_added
on_point_added(x, y) ==
    Executed(App, AddPeakPointCommand_init(App, x, y))

\* MainApp.on_point_removed; the plot emits the index of a point it shows.
on_point_removed(idx) ==
    Executed(App, RemovePeakPointCommand_init(App, idx))

\* MainApp.fit_peaks
fit_peaks ==
    IF FitPeaksCommand2_init_raises(App) THEN Untouched("fit_peaks", TRUE)
    ELSE Executed(App, FitPeaksCommand2_init(App, peaks_x))

\* MainApp.find_peaks with textbox_height holding `height`.
find_peaks_callback(height) ==
    IF IsNone(spectrum) THEN Untouched("find_peaks", TRUE)
    ELSE LET pk == get_peaks(Val(spectrum).x, Val(spectrum).y, height)
         IN  Direct("find_peaks",
                    refresh_peaks_view([App EXCEPT !.peaks_x = pk.x,
                                                   !.peaks_y = pk.y]))

\* MainApp.discretize_baseline: the scatter of draggable points is sampled
\* from the baseline every discrete_baseline_step_size along x.
discretize_baseline ==
    IF IsNone(spectrum) \/ IsNone(baseline_data)
    THEN Untouched("discretize_baseline", TRUE)
    ELSE IF \/ Len(Val(spectrum).x) = 0
            \/ np_interp_raises(Val(spectrum).x, Val(baseline_data))
    THEN Untouched("discretize_baseline", TRUE)
    ELSE LET x == Val(spectrum).x
             x_vals == np_arange(x[1], x[Len(x)], discrete_baseline_step_size)
             y_vals == np_interp(x_vals, x, Val(baseline_data))
         IN  Direct("discretize_baseline",
                    [App EXCEPT !.draggableScatter =
                                    Some([x |-> x_vals, y |-> y_vals])])

\* The user drags point ix of the scatter to (endX, endY) and releases it:
\* mouseDragEvent writes the position and emits pointDragged
\* (update_discretized_baseline), mouseReleaseEvent emits dragFinished and
\* handle_drag_finished executes a PointDragCommand.
handle_drag_finished(ix, endX, endY) ==
    LET data == Val(draggableScatter)
        dragged == update_discretized_baseline(SetPoint(App, ix, endX, endY)).app
    IN  Executed(dragged,
                 PointDragCommand_init(dragged, ix, data.x[ix + 1],
                                       data.y[ix + 1], endX, endY))

\* abs(v)
Abs(v) == IF v < 0 THEN 0 - v ELSE v

\* Positions the user can drag the height control line (peak_line) to.
PeakLinePositions == { 3 }

\* The per-peak dicts of identity `ref` as a command sees them after they were
\* rewritten to `stats`: old_fit_stats and new_fit_stats hold the dicts
\* themselves, not copies of them.
SeenThrough(c, ref, stats) ==
    IF c.kind # "FitPeaks" THEN c
    ELSE [c EXCEPT !.old_fit_stats = IF c.old_fit_ref = ref THEN Some(stats) ELSE @,
                   !.new_fit_stats = IF c.new_fit_ref = ref THEN Some(stats) ELSE @]

\* MainApp.update_gaussians with 'Peak selected_idx' chosen in the dropdown
\* and the three control lines at the given positions.  The three writes go
\* into the per-peak dict that fit_stats_2 holds; the curves are redrawn
\* after them (min(self.spectrum.x) raises without a spectrum).
update_gaussians(selected_idx, peak_line, center_line, sigma_line) ==
    LET height_new == peak_line
        center_new == center_line
        sigma_new  == Abs(sigma_line - center_new)
        stats == [Val(fit_stats_2) EXCEPT ![selected_idx].Height = height_new,
                                          ![selected_idx].Center = center_new,
                                          ![selected_idx].Sigma = sigma_new]
        raised == IsNone(spectrum) \/ Len(Val(spectrum).x) = 0
    IN  /\ fit_stats_2' = Some(stats)
        /\ commands' = [i \in DOMAIN commands |->
                            SeenThrough(commands[i], fit_ref, stats)]
        /\ lastOp' = Op("update_gaussians", raised, FALSE, 0)
        /\ nops' = nops + 1
        /\ cycle' = NoCycle
        /\ run' = NoRun(H)
        /\ UNCHANGED <<index, spectrum, baseline_data, baseline_plot,
                       button_baseline, plot1_log, peaks_x, peaks_y, fit_ref,
                       fit_count, unknown_spectrum_path, draggableScatter,
                       batch,
                       matching, pre, trail>>

\* The exploration stops after MaxOps callbacks, except that commands still
\* undone are redone then (which ends at the tip of the history).
Budget == nops < MaxOps

\* MainApp.undo
undo ==
    LET res == CommandHistory_undo(H, App)
    IN  IF res.h = H /\ res.app = App /\ ~res.raised
        THEN Untouched("undo", FALSE)
        ELSE /\ SetHistory(res.h)
             /\ SetApp(res.app)
             /\ lastOp' = Op("undo", res.raised, FALSE, 0)
             /\ nops' = nops + 1
             /\ pre' = pre
             /\ trail' = trail
             /\ UNCHANGED matching
             /\ IF res.raised
                THEN run' = NoRun(H) /\ cycle' = NoCycle
                ELSE /\ run' = [run EXCEPT !.undoing = TRUE]
                     /\ cycle' =
                          IF index + 1 < run.lo THEN NoCycle
                          ELSE IF ~run.undoing
                          THEN [base |-> Some(Snapshot), k |-> 1, r |-> 0]
                          ELSE IF ~IsNone(cycle.base) /\ cycle.r = 0
                          THEN [cycle EXCEPT !.k = @ + 1]
                          ELSE NoCycle

\* MainApp.redo
redo ==
    LET res == CommandHistory_redo(H, App)
    IN  IF res.h = H /\ res.app = App /\ ~res.raised
        THEN Untouched("redo", FALSE)
        ELSE /\ SetHistory(res.h)
             /\ SetApp(res.app)
             /\ lastOp' = Op("redo", res.raised, FALSE, 0)
             /\ nops' = IF Budget THEN nops + 1 ELSE nops
             /\ pre' = pre
             /\ UNCHANGED matching
             /\ trail' = IF res.raised \/ index + 2 > Len(trail) THEN trail
                         ELSE [trail EXCEPT ![index + 2].session = session,
                                            ![index + 2].log = plot1_log]
             /\ run' = NoRun(H)
             /\ cycle' = IF ~res.raised /\ ~IsNone(cycle.base) /\ cycle.r < cycle.k
                         THEN [cycle EXCEPT !.r = @ + 1]
                         ELSE NoCycle

(***************************************************************************)
(* The session: MainApp as constructed, then any callbacks in any order.   *)
(***************************************************************************)
Init ==
    /\ commands = CommandHistory_init.commands
    /\ index = CommandHistory_init.index
    /\ spectrum = InitApp.spectrum
    /\ baseline_data = InitApp.baseline_data
    /\ baseline_plot = InitApp.baseline_plot
    /\ button_baseline = InitApp.button_baseline
    /\ plot1_log = InitApp.plot1_log
    /\ peaks_x = InitApp.peaks_x
    /\ peaks_y = InitApp.peaks_y
    /\ fit_stats_2 = InitApp.fit_stats_2
    /\ fit_ref = InitApp.fit_ref
    /\ fit_count = InitApp.fit_count
    /\ unknown_spectrum_path = InitApp.unknown_spectrum_path
    /\ draggableScatter = InitApp.draggableScatter
    /\ batch = InitApp.batch
    /\ database = None
    /\ search = None
    /\ call = None
    /\ lastOp = Op("init", FALSE, FALSE, 0)
    /\ nops = 0
    /\ pre = <<>>
    /\ run = NoRun(CommandHistory_init)
    /\ cycle = NoCycle
    /\ trail = <<>>


LoadAction == Budget /\ \E file \in Files : load_unknown_spectrum(file)
BaselineAction == Budget /\ baseline_callback
CropAction == Budget /\ \E reg \in CropRegions : apply_crop(reg[1], reg[2])
SmoothAction == Budget /\ \E lapack_fails \in BOOLEAN : smooth_spectrum(lapack_fails)
AddPointAction == Budget /\ \E pt \in ClickPoints : on_point_added(pt[1], pt[2])
RemovePointAction ==
    Budget /\ \E idx \in 0..(Len(peaks_x) - 1) : on_point_removed(idx)
FitAction == Budget /\ fit_peaks
FindPeaksAction == Budget /\ \E height \in Heights : find_peaks_callback(height)
\* The user selects a peak in the dropdown (update_control_lines moves the
\* control lines onto it) and drags the height line.
UpdateGaussiansAction ==
    /\ Budget
    /\ ~IsNone(fit_stats_2)
    /\ \E selected_idx \in 1..Len(Val(fit_stats_2)), h \in PeakLinePositions :
          LET key == Val(fit_stats_2)[selected_idx]
          IN  update_gaussians(selected_idx, h, key.Center, key.Center + key.Sigma)
\* The user drags the width control line (sigma_line) of the selected peak
\* to Center + d.  move_sigma writes Sigma = abs(sigma_line - Center) and
\* calls update_gaussians, which writes the same three values again.
SigmaLineOffsets == { 2 }
MoveSigmaAction ==
    /\ Budget
    /\ ~IsNone(fit_stats_2)
    /\ \E selected_idx \in 1..Len(Val(fit_stats_2)), d \in SigmaLineOffsets :
          LET key == Val(fit_stats_2)[selected_idx]
          IN  update_gaussians(selected_idx, key.Height, key.Center,
                               key.Center + d)
DiscretizeAction == Budget /\ discretize_baseline
\* Positions a point of the scatter is dragged to.
DragTargets == { <<101, 2>>, <<106, 4>> }
DragAction ==
    /\ Budget
    /\ ~IsNone(draggableScatter)
    /\ \E ix \in 0..(Len(Val(draggableScatter).x) - 1), pos \in DragTargets :
          handle_drag_finished(ix, pos[1], pos[2])
UndoAction == Budget /\ undo
RedoAction == (Budget \/ index < Len(commands) - 1) /\ redo

Next ==
    \/ LoadAction
    \/ BaselineAction
    \/ CropAction
    \/ SmoothAction
    \/ AddPointAction
    \/ RemovePointAction
    \/ FitAction
    \/ FindPeaksAction
    \/ UndoAction
    \/ RedoAction

Spec == Init /\ [][Next]_vars

(***************************************************************************)
(* The Command classes used on their own: a command is constructed from    *)
(* the current session and its undo() is called although its execute()     *)
(* never ran.  SpecDirect adds this use to the session.                    *)
(***************************************************************************)
\* The commands that can be constructed in the current state.
Constructible ==
    { LoadSpectrumCommand_init(App, get_xy_from_file(f).x, get_xy_from_file(f).y) :
        f \in Files }
    \cup { AddPeakPointCommand_init(App, pt[1], pt[2]) : pt \in ClickPoints }
    \cup { RemovePeakPointCommand_init(App, idx) : idx \in 0..(Len(peaks_x) - 1) }
    \cup (IF IsNone(spectrum) THEN {}
          ELSE { CropCommand_init(App, reg[1], reg[2]) : reg \in CropRegions }
               \cup { FitPeaksCommand2_init(App, peaks_x) }
               \cup (IF NpSubRaises(Val(spectrum).y,
                                    IF IsNone(baseline_data) THEN Val(spectrum).y
                                    ELSE Val(baseline_data))
                     THEN {} ELSE { CorrectBaselineCommand_init(App) })
               \cup (IF baseline_als_raises(Val(spectrum).y) THEN {}
                     ELSE { EstimateBaselineCommand_init(App,
                                baseline_als(Val(spectrum).y, lam_default,
                                             p_default, niter_default)) })
               \cup (IF savgol_raises(Val(spectrum).y) THEN {}
                     ELSE { SmoothCommand_init(App) }))

\* command.undo() on a command that was constructed and never executed.  The
\* session is not followed further after such a call (the budget is used up).
undo_unexecuted(cmd) ==
    LET r == Undo(cmd, App)
    IN  /\ SetApp(r.app)
        /\ lastOp' = Op("undo_unexecuted", r.raised, FALSE, 0)
        /\ nops' = MaxOps
        /\ cycle' = NoCycle
        /\ run' = NoRun(H)
        /\ UNCHANGED <<commands, index, matching, pre, trail>>

UndoUnexecutedAction == Budget /\ \E cmd \in Constructible : undo_unexecuted(cmd)

NextDirect ==
    \/ LoadAction
    \/ BaselineAction
    \/ CropAction
    \/ SmoothAction
    \/ AddPointAction
    \/ RemovePointAction
    \/ FitAction
    \/ FindPeaksAction
    \/ UndoAction
    \/ RedoAction
    \/ UndoUnexecutedAction

SpecDirect == Init /\ [][NextDirect]_vars

\* self.command_history.execute(cmd) for a command constructed in the
\* current session, whatever the state of the buttons.
ExecuteConstructedAction ==
    Budget /\ \E cmd \in Constructible : Executed(App, cmd)

NextCommands ==
    \/ LoadAction
    \/ ExecuteConstructedAction
    \/ UndoAction
    \/ RedoAction

SpecCommands == Init /\ [][NextCommands]_vars

(***************************************************************************)
(* The baseline session: the estimated baseline is discretized and its     *)
(* points are dragged.                                                     *)
(***************************************************************************)
NextDrag ==
    \/ LoadAction
    \/ BaselineAction
    \/ DiscretizeAction
    \/ DragAction
    \/ UndoAction
    \/ RedoAction

SpecDrag == Init /\ [][NextDrag]_vars

(***************************************************************************)
(* The fitting session: peaks are found and fitted, the fitted peaks are   *)
(* edited with the control lines, and fits are undone and redone.          *)
(***************************************************************************)
SessionOf(a) ==
    <<a.spectrum, a.baseline_data, a.peaks_x, a.peaks_y, a.fit_stats_2>>

\* The session after load_unknown_spectrum(file), find_peaks(height) and
\* fit_peaks, in this order, on a freshly constructed MainApp.
FittedSession(file, height) ==
    LET a1 == [InitApp EXCEPT !.unknown_spectrum_path = Some(file.name)]
        xy == get_xy_from_file(file)
        loaded == CommandHistory_execute(CommandHistory_init, a1,
                      LoadSpectrumCommand_init(a1, xy.x, xy.y))
    IN  LET pk == get_peaks(Val(loaded.app.spectrum).x,
                            Val(loaded.app.spectrum).y, height)
            a2 == refresh_peaks_view([loaded.app EXCEPT !.peaks_x = pk.x,
                                                        !.peaks_y = pk.y])
        IN  LET cmd == FitPeaksCommand2_init(a2, a2.peaks_x)
                fitted == CommandHistory_execute(loaded.h, a2, cmd)
            IN  [raised |-> loaded.raised \/ fitted.raised,
                 h |-> fitted.h, app |-> fitted.app, cmd |-> cmd,
                 found |-> a2, loaded |-> loaded.app]

FittedSessions ==
    { FittedSession(file, height) : file \in Files, height \in Heights }

InitFit ==
    \E s \in FittedSessions :
        /\ ~s.raised
        /\ commands = s.h.commands
        /\ index = s.h.index
        /\ spectrum = s.app.spectrum
        /\ baseline_data = s.app.baseline_data
        /\ baseline_plot = s.app.baseline_plot
        /\ button_baseline = s.app.button_baseline
        /\ plot1_log = s.app.plot1_log
        /\ peaks_x = s.app.peaks_x
        /\ peaks_y = s.app.peaks_y
        /\ fit_stats_2 = s.app.fit_stats_2
        /\ fit_ref = s.app.fit_ref
        /\ fit_count = s.app.fit_count
        /\ unknown_spectrum_path = s.app.unknown_spectrum_path
        /\ draggableScatter = s.app.draggableScatter
        /\ batch = s.app.batch
        /\ database = None
        /\ search = None
        /\ call = None
        /\ lastOp = [Op("execute", FALSE, FALSE, 0) EXCEPT !.cmd = Some(s.cmd)]
        /\ nops = 0
        /\ pre = <<SessionOf(InitApp), SessionOf(s.found)>>
        /\ run = [lo |-> 2, undoing |-> FALSE]
        /\ cycle = NoCycle
        /\ trail = <<[log0 |-> InitApp.plot1_log, log1 |-> s.loaded.plot1_log,
                      session |-> SessionOf(InitApp), log |-> InitApp.plot1_log],
                     [log0 |-> s.found.plot1_log, log1 |-> s.app.plot1_log,
                      session |-> SessionOf(s.found), log |-> s.found.plot1_log]>>

\* fit_peaks, with the outcome of the minimiser behind model.fit: lmfit
\* stops after max_nfev evaluations of the residual and returns its result
\* with success = False, without raising.  fit_gauss hands the result on;
\* FitPeaksCommand2.execute drops it and keeps the peak statistics.
FitWithinBudgetAction ==
    /\ Budget
    /\ ~FitPeaksCommand2_init_raises(App)
    /\ \E success \in BOOLEAN :
          /\ Submitted(App, FitPeaksCommand2_init(App, peaks_x))
          /\ call' = Some([fn |-> "fit_gauss", success |-> success,
                           raised |-> fit_gauss_raises(Val(spectrum).x,
                                          Val(spectrum).y, peaks_x)])
          /\ UNCHANGED <<database, search>>

NextFit ==
    \/ LoadAction
    \/ FindPeaksAction
    \/ FitWithinBudgetAction
    \/ UpdateGaussiansAction
    \/ MoveSigmaAction
    \/ UndoAction
    \/ RedoAction

SpecFit == InitFit /\ [][NextFit]_vars

(***************************************************************************)
(* The search session: a reference database is selected and searched for   *)
(* the combinations of reference spectra that cover the typed peaks.       *)
(***************************************************************************)
\* Largest number of rows of a reference database explored.
MaxRows == 3
\* Largest tolerance typed into textbox_tolerance.
MaxTol == 1

\* Rows of the Spectra table.  "A" is catalogued with either of its peaks as
\* the strongest one; "C" is a second measurement of the mineral of "A"; the
\* strongest peak of "D" is far from every peak searched for.
RowA(strongest_peak) ==
    [filename |-> "A", names |-> "quartz", strongest_peak |-> strongest_peak,
     peaks |-> <<100, 200>>]
RowB ==
    [filename |-> "B", names |-> "calcite", strongest_peak |-> 300,
     peaks |-> <<300>>]
RowC ==
    [filename |-> "C", names |-> "quartz", strongest_peak |-> 100,
     peaks |-> <<100, 300, 100>>]
RowD ==
    [filename |-> "D", names |-> "albite", strongest_peak |-> 310,
     peaks |-> <<100, 300>>]

\* The databases the file dialog can return: filename is the primary key.
Databases ==
    { a \o b \o c \o d :
        a \in { <<>>, <<RowA(100)>>, <<RowA(200)>> },
        b \in { <<>>, <<RowB>> },
        c \in { <<>>, <<RowC>> },
        d \in { <<>>, <<RowD>> } }

\* textbox_peaks as parsed by on_search; <<>> is the empty textbox.
UnknownPeaks ==
    { <<>>, <<100>>, <<100, 300>>, <<300, 100>>, <<101, 299>>, <<200, 300>> }

\* MainApp.load_database_file, the file dialog returning the database `db`.
load_database_file(db) ==
    /\ database' = Some(db)
    /\ UNCHANGED <<commands, index, app, search, call, ghost>>

\* MainApp.on_search with textbox_peaks parsed to `peaks` and
\* textbox_tolerance to `tolerance`.  Without a database it shows an error
\* and returns; float('') raises ValueError for an empty textbox_peaks.
on_search(peaks, tolerance) ==
    IF IsNone(database) \/ Len(peaks) = 0
    THEN UNCHANGED vars
    ELSE LET result == find_spectrum_matches(Val(database), peaks, tolerance)
         IN  /\ search' =
                  Some([database |-> Val(database),
                        unknown_peaks |-> peaks,
                        tol |-> tolerance,
                        result |-> result,
                        unique |->
                          [r \in 1..MaxComboSize |->
                             get_unique_mineral_combinations_optimized(
                                Val(database), result[r])]])
             /\ UNCHANGED <<commands, index, app, database, call, ghost>>

LoadDatabaseAction ==
    \E db \in Databases : Len(db) <= MaxRows /\ load_database_file(db)
\* The tolerances typed are not negative.
SearchAction ==
    \E peaks \in UnknownPeaks, tolerance \in 0..MaxTol :
        tolerance >= 0 /\ on_search(peaks, tolerance)

NextMatch ==
    \/ LoadDatabaseAction
    \/ SearchAction

SpecMatch == Init /\ [][NextMatch]_vars

(***************************************************************************)
(* The editing session: the spectrum is loaded, cropped (also down to one  *)
(* sample), smoothed and its baseline estimated and subtracted, with undo  *)
(* and redo.                                                               *)
(***************************************************************************)
\* A crop region that leaves one sample of FileA.
WideCropRegion == <<1, 4>>

CropWideAction == Budget /\ apply_crop(WideCropRegion[1], WideCropRegion[2])

NextEdits ==
    \/ LoadAction
    \/ BaselineAction
    \/ CropAction
    \/ CropWideAction
    \/ SmoothAction
    \/ UndoAction
    \/ RedoAction

SpecEdits == Init /\ [][NextEdits]_vars

(***************************************************************************)
(* The functions of utils.py called on their own, with arguments drawn     *)
(* from bounded sets.  `call` is the frame of the call: the function, its  *)
(* arguments, its locals while it runs, whether it raised and what it      *)
(* returned.                                                               *)
(***************************************************************************)
Frame(f) == /\ call' = Some(f)
            /\ UNCHANGED <<commands, index, app, database, search, ghost>>

\* find_spectrum_matches(database_path, unknown_peaks, tol)
FindSpectrumMatchesAction ==
    \E db \in Databases, unknown_peaks \in UnknownPeaks, tolerance \in 0..MaxTol :
        /\ Len(db) <= MaxRows
        /\ Frame([fn |-> "find_spectrum_matches", db |-> db,
                   unknown_peaks |-> unknown_peaks, tol |-> tolerance,
                   raised |-> find_spectrum_matches_raises(db, unknown_peaks,
                                                           tolerance),
                   ret |-> IF find_spectrum_matches_raises(db, unknown_peaks,
                                                           tolerance)
                           THEN None
                           ELSE Some(find_spectrum_matches(db, unknown_peaks,
                                                           tolerance))])

\* Longest intensity sequence passed to baseline_als.
MaxLen == 3
\* Largest niter passed to baseline_als.
MaxIter == 3

\* Intensities of the samples: missing, or 0.2, 0.6, 1.0.
Intensities == { NaN, 1, 3, 5 }

AlsInputs == UNION { [1..n -> Intensities] : n \in 1..MaxLen }

\* baseline_als(y, lam, p, niter) up to the loop: y_valid, the penalty
\* matrix (diags raises below two valid samples) and w = np.ones(L_valid).
BaselineAlsAction ==
    \E y \in AlsInputs, niter \in 1..MaxIter :
        /\ Len(y) <= MaxLen
        /\ Frame([fn |-> "baseline_als", y |-> y, p |-> p_default,
                  niter |-> niter, i |-> 0,
                  w |-> [k \in 1..Len(ValidOnly(y)) |-> WeightScale],
                  z_valid |-> None,
                  raised |-> baseline_als_raises(y), ret |-> None])

InAls == /\ ~IsNone(call) /\ Val(call).fn = "baseline_als"
         /\ ~Val(call).raised /\ IsNone(Val(call).ret)

\* One pass of `for i in range(niter)`: the solve, then the reweighting.
AlsIterateAction ==
    /\ InAls
    /\ Val(call).i < Val(call).niter
    /\ LET f == Val(call)
           z_valid == spsolve(f.w, ValidOnly(f.y))
       IN  Frame([f EXCEPT !.i = f.i + 1,
                           !.z_valid = Some(z_valid),
                           !.w = als_reweight(ValidOnly(f.y), z_valid, f.p)])

\* After the loop: z[:] = nan; z[valid_indices] = z_valid; return z
AlsReturnAction ==
    /\ InAls
    /\ Val(call).i = Val(call).niter
    /\ Frame([Val(call) EXCEPT
                !.ret = Some(scatter_valid(Val(call).y, Val(Val(call).z_valid)))])

GetXyFromFileAction ==
    \E file \in Files \cup OtherFiles :
        /\ file.name # ""
        /\ Frame([fn |-> "get_xy_from_file", file |-> file.name,
                  raised |-> get_xy_from_file_call(file).raised,
                  ret |-> get_xy_from_file_call(file).ret])

NextUtils ==
    \/ FindSpectrumMatchesAction
    \/ GetXyFromFileAction
    \/ BaselineAlsAction
    \/ AlsIterateAction
    \/ AlsReturnAction

SpecUtils == Init /\ [][NextUtils]_vars

(***************************************************************************)
(* spectra.py: class Spectrum.  An object is a record of its attributes.   *)
(* numpy arrays are objects: `self.y -= baseline` writes into the array    *)
(* self.y refers to, and `self.x, self.y = self._history[self._current]`   *)
(* makes self.y refer to the array held by the history.  alias is the      *)
(* (code) position of the history entry whose y array is the object        *)
(* self.y, or -1 when self.y is an array of its own.  x is never written   *)
(* in place, so sharing of x arrays cannot be observed.                    *)
(***************************************************************************)
Spectrum_init(x, y) ==
    [x |-> x, y |-> y, _history |-> << <<x, y>> >>, _current |-> 0,
     alias |-> -1]

\* self._history = self._history[:self._current+1]; append copies; point at
\* the last entry.
Spectrum_add_to_history_KeepsRedo(s) ==
    [s EXCEPT !._history = Append(@, <<s.x, s.y>>),
              !._current = Len(s._history)]

Spectrum_add_to_history(s) ==
    [s EXCEPT !._history = Append(SubSeq(@, 1, s._current + 1), <<s.x, s.y>>),
              !._current = s._current + 1]

\* self.x, self.y = self._history[self._current]
Spectrum_restore(s) ==
    [s EXCEPT !.x = s._history[s._current + 1][1],
              !.y = s._history[s._current + 1][2],
              !.alias = s._current]

\* `self.y -= baseline` broadcasts a baseline of one element and raises
\* ValueError for any other length that differs from len(self.y).
Spectrum_correct_baseline_raises(s, baseline) ==
    Len(baseline) # Len(s.y) /\ Len(baseline) # 1

Spectrum_correct_baseline(s, baseline) ==
    LET y2 == [k \in 1..Len(s.y) |->
                 s.y[k] - (IF Len(baseline) = 1 THEN baseline[1] ELSE baseline[k])]
        written == [s EXCEPT !.y = y2,
                             !._history =
                                 IF s.alias >= 0
                                 THEN [@ EXCEPT ![s.alias + 1] = <<@[1], y2>>]
                                 ELSE @]
    IN  Spectrum_add_to_history(written)

\* Boolean-mask indexing builds new arrays.
Spectrum_crop(s, start, end) ==
    LET keep(k) == s.x[k] >= start /\ s.x[k] <= end
        kept == SelectSeq([k \in 1..Len(s.x) |-> k], keep)
    IN  Spectrum_add_to_history(
            [s EXCEPT !.x = [k \in 1..Len(kept) |-> s.x[kept[k]]],
                      !.y = [k \in 1..Len(kept) |-> s.y[kept[k]]],
                      !.alias = -1])

Spectrum_undo(s) ==
    IF s._current > 0
    THEN Spectrum_restore([s EXCEPT !._current = @ - 1])
    ELSE s

Spectrum_redo(s) ==
    IF s._current < Len(s._history) - 1
    THEN Spectrum_restore([s EXCEPT !._current = @ + 1])
    ELSE s

\* The object under test with the method last called on it.  recorded keeps
\* each snapshot as it was when _add_to_history stored it.
InSpectrum == ~IsNone(call) /\ Val(call).fn = "Spectrum"

Self == Val(call).self

SpectrumXs == { <<1, 2, 3>> }
SpectrumYs == { <<5, 5, 5>>, <<3, 4, 5>> }
SpectrumBaselines == { <<1, 1, 1>>, <<0, 1, 2>>, <<1>>, <<1, 1>> }
SpectrumCropRanges == { <<1, 2>>, <<2, 3>>, <<9, 9>> }

Method(name, raised, s, recorded) ==
    Frame([fn |-> "Spectrum", op |-> name, raised |-> raised, self |-> s,
           calls |-> IF InSpectrum /\ name # "__init__"
                     THEN Val(call).calls + 1 ELSE 0,
           dropped |-> IF InSpectrum /\ name \in {"correct_baseline", "crop"}
                          /\ ~raised
                       THEN Len(Self._history) - (Self._current + 1) ELSE 0,
           recorded |-> recorded])

Edited(s) ==
    Append(SubSeq(Val(call).recorded, 1, Self._current + 1), <<s.x, s.y>>)

SpectrumInitAction ==
    \E x \in SpectrumXs, y \in SpectrumYs :
        /\ Len(x) = Len(y)
        /\ Method("__init__", FALSE, Spectrum_init(x, y), << <<x, y>> >>)

SpectrumCorrectBaselineAction ==
    /\ InSpectrum /\ Val(call).calls < MaxOps
    /\ \E baseline \in SpectrumBaselines :
         IF Spectrum_correct_baseline_raises(Self, baseline)
         THEN Method("correct_baseline", TRUE, Self, Val(call).recorded)
         ELSE Method("correct_baseline", FALSE,
                     Spectrum_correct_baseline(Self, baseline),
                     Edited(Spectrum_correct_baseline(Self, baseline)))

SpectrumCropAction ==
    /\ InSpectrum /\ Val(call).calls < MaxOps
    /\ \E r \in SpectrumCropRanges :
         Method("crop", FALSE, Spectrum_crop(Self, r[1], r[2]),
                Edited(Spectrum_crop(Self, r[1], r[2])))

SpectrumUndoAction ==
    /\ InSpectrum /\ Val(call).calls < MaxOps
    /\ Method("undo", FALSE, Spectrum_undo(Self), Val(call).recorded)

SpectrumRedoAction ==
    /\ InSpectrum /\ Val(call).calls < MaxOps
    /\ Method("redo", FALSE, Spectrum_redo(Self), Val(call).recorded)

NextSpectrum ==
    \/ SpectrumInitAction
    \/ SpectrumCorrectBaselineAction
    \/ SpectrumCropAction
    \/ SpectrumUndoAction
    \/ SpectrumRedoAction

SpecSpectrum == Init /\ [][NextSpectrum]_vars

(***************************************************************************)
(* Batch processing (gui.py): select_folder and batch_next_step.  A folder *)
(* is the list of the files os.listdir finds in it.  What a step reads     *)
(* from outside the session is an input of the call: the crop region drawn *)
(* in the plot, the text of textbox_height, whether LAPACK fails in the    *)
(* smoothing, whether open() and the PNG export fail.  The history         *)
(* variables pre, run, cycle and trail are not followed through batch      *)
(* processing.                                                             *)
(***************************************************************************)
\* MainApp.batch_processing_steps
batch_processing_steps ==
    <<"Load file", "Enter crop mode", "Apply crop", "Estimate baseline",
      "Apply baseline correction", "Smooth spectrum", "Find peaks",
      "Fit peaks", "Save spectrum", "Save fits", "Save plot as PNG">>

\* Most calls of select_folder and batch_next_step in a session.
MaxBatchCalls == 14

\* What QFileDialog.getExistingDirectory and os.listdir can give: None when
\* the dialog is cancelled.
Folders ==
    { None, Some(<<>>), Some(<<FileDat>>), Some(<<FileB>>),
      Some(<<FileB, FileDat, FileA>>), Some(<<FileShortLine, FileB>>) }

\* MainApp.select_folder with the dialog returning `folder`.
select_folder(a, folder) ==
    IF ~IsNone(folder)
    THEN [a EXCEPT !.batch.batch_files =
                       SelectSeq(Val(folder),
                                 LAMBDA f : \E stem \in {"a", "b", "c", "d"} :
                                     f.name \in {stem \o ".txt", stem \o ".spc"}),
                   !.batch.current_batch_file_index = 0,
                   !.batch.current_batch_step_index = 0]
    ELSE [a EXCEPT !.batch.batch_files = <<>>]

BatchInputs ==
    [crop_region : {None, Some(<<1, 2>>), Some(<<99, 101>>)},
     height : Heights, lapack_fails : BOOLEAN,
     open_fails : BOOLEAN, export_fails : BOOLEAN]

\* self.command_history.execute(command) at the end of a callback.
Execute_in(h, a, init_raises, command) ==
    IF init_raises THEN Result(TRUE, h, a)
    ELSE CommandHistory_execute(h, a, command)

\* MainApp.toggle_crop_mode, with plot1.get_crop_region() returning
\* crop_region; apply_crop returns at once without a region.
toggle_crop_mode(h, a, crop_region) ==
    IF a.batch.cropping
    THEN LET r == IF IsNone(crop_region) THEN Result(FALSE, h, a)
                  ELSE Execute_in(h, a, CropCommand_init_raises(a),
                                  CropCommand_init(a, Val(crop_region)[1],
                                                   Val(crop_region)[2]))
         IN  IF r.raised THEN r
             ELSE Result(FALSE, r.h, [r.app EXCEPT !.batch.cropping = FALSE])
    ELSE Result(FALSE, h, [a EXCEPT !.batch.cropping = TRUE])

\* MainApp.baseline_callback as called by a batch step.
baseline_callback_in(h, a) ==
    IF a.button_baseline = "Estimate Baseline"
    THEN IF IsNone(a.spectrum) THEN Result(TRUE, h, a)
         ELSE Execute_in(h, a, baseline_als_raises(Val(a.spectrum).y),
                         EstimateBaselineCommand_init(a,
                             baseline_als(Val(a.spectrum).y, lam_default,
                                          p_default, niter_default)))
    ELSE Execute_in(h, a, CorrectBaselineCommand_init_raises(a),
                    CorrectBaselineCommand_init(a))

\* MainApp.save_spectrum_as_png: a warning without a spectrum, and the
\* export inside try/except.
save_spectrum_as_png(a, export_fails) ==
    IF IsNone(a.spectrum) \/ export_fails THEN a
    ELSE addItem(a, "Saved spectrum plot as PNG: "
                        \o Val(a.unknown_spectrum_path) \o "_spectrum.png")

\* The branch of batch_next_step for current_step.
batch_step(current_step, h, a, in) ==
    LET current_file ==
            a.batch.batch_files[a.batch.current_batch_file_index + 1]
    IN  CASE current_step = "Load file" ->
               LET a1 == [a EXCEPT !.unknown_spectrum_path = Some(current_file.name)]
                   xy == get_xy_from_file_call(current_file)
               IN  IF xy.raised \/ IsNone(xy.ret) THEN Result(TRUE, h, a1)
                   ELSE LET r == CommandHistory_execute(h, a1,
                                     LoadSpectrumCommand_init(a1, Val(xy.ret).x,
                                                              Val(xy.ret).y))
                        IN  IF r.raised THEN r
                            ELSE Result(FALSE, r.h,
                                        addItem(r.app, "Loaded file: "
                                                        \o current_file.name))
          [] current_step = "Enter crop mode" ->
               IF ~a.batch.cropping THEN toggle_crop_mode(h, a, in.crop_region)
               ELSE Result(FALSE, h, a)
          [] current_step = "Apply crop" ->
               IF a.batch.cropping THEN toggle_crop_mode(h, a, in.crop_region)
               ELSE Result(FALSE, h, a)
          [] current_step = "Estimate baseline" ->
               IF a.button_baseline = "Estimate Baseline"
               THEN baseline_callback_in(h, a)
               ELSE Result(FALSE, h, a)
          [] current_step = "Apply baseline correction" ->
               IF a.button_baseline = "Apply Baseline Correction"
               THEN baseline_callback_in(h, a)
               ELSE Result(FALSE, h, a)
          [] current_step = "Smooth spectrum" ->
               Execute_in(h, a, SmoothCommand_init_raises(a, in.lapack_fails),
                          SmoothCommand_init(a))
          [] current_step = "Find peaks" ->
               IF IsNone(a.spectrum) THEN Result(TRUE, h, a)
               ELSE LET pk == get_peaks(Val(a.spectrum).x, Val(a.spectrum).y,
                                        in.height)
                    IN  Result(FALSE, h,
                               refresh_peaks_view([a EXCEPT !.peaks_x = pk.x,
                                                            !.peaks_y = pk.y]))
          [] current_step = "Fit peaks" ->
               Execute_in(h, a, FitPeaksCommand2_init_raises(a),
                          FitPeaksCommand2_init(a, a.peaks_x))
          [] current_step = "Save spectrum" ->
               IF IsNone(a.unknown_spectrum_path) \/ in.open_fails
                  \/ IsNone(a.spectrum)
               THEN Result(TRUE, h, a)
               ELSE Result(FALSE, h,
                           addItem(a, "Saved edited spectrum to: "
                                        \o Val(a.unknown_spectrum_path)
                                        \o "_processed.txt"))
          [] current_step = "Save fits" ->
               IF IsNone(a.unknown_spectrum_path) \/ in.open_fails
                  \/ IsNone(a.fit_stats_2)
               THEN Result(TRUE, h, a)
               ELSE Result(FALSE, h,
                           addItem(a, "Saved fits to: "
                                        \o Val(a.unknown_spectrum_path)
                                        \o "_fits.txt"))
          [] current_step = "Save plot as PNG" ->
               Result(FALSE, h, save_spectrum_as_png(a, in.export_fails))

\* "Move to the next step": the step index, and the file index after the
\* last step.
batch_advance(a) ==
    IF a.batch.current_batch_step_index + 1 >= Len(batch_processing_steps)
    THEN [a EXCEPT !.batch.current_batch_step_index = 0,
                   !.batch.current_batch_file_index = @ + 1]
    ELSE [a EXCEPT !.batch.current_batch_step_index = @ + 1]

\* batch_next_step returns at once without files and after the last file.
batch_returns_at_once(a) ==
    \/ a.batch.batch_files = <<>>
    \/ a.batch.current_batch_file_index >= Len(a.batch.batch_files)

\* MainApp.batch_next_step
batch_next_step(h, a, in) ==
    IF batch_returns_at_once(a) THEN Result(FALSE, h, a)
    ELSE LET r == batch_step(
                      batch_processing_steps[a.batch.current_batch_step_index + 1],
                      h, a, in)
         IN  IF r.raised THEN r
             ELSE Result(FALSE, r.h, batch_advance(r.app))

BatchCall(name, res, noop) ==
    /\ SetHistory(res.h)
    /\ SetApp(res.app)
    /\ lastOp' = Op(name, res.raised, noop, 0)
    /\ nops' = nops + 1
    /\ UNCHANGED <<matching, pre, run, cycle, trail>>

SelectFolderAction ==
    /\ nops < MaxBatchCalls
    /\ \E folder \in Folders :
          BatchCall("select_folder",
                    Result(FALSE, H, select_folder(App, folder)), FALSE)

BatchNextStepAction ==
    /\ nops < MaxBatchCalls
    /\ \E in \in BatchInputs :
          BatchCall("batch_next_step", batch_next_step(H, App, in),
                    batch_returns_at_once(App))

NextBatch ==
    \/ SelectFolderAction
    \/ BatchNextStepAction

SpecBatch == Init /\ [][NextBatch]_vars

(***************************************************************************)
(* Properties.                                                             *)
(***************************************************************************)
\* The last callback went through CommandHistory.execute and did not raise.
ExecutedOk == lastOp.name = "execute" /\ ~lastOp.raised
\* The last callback went through CommandHistory.execute, which raised.
ExecuteRaised == lastOp.name = "execute" /\ lastOp.raised

\* C1: after commands c1..cn were executed one after the other through
\* CommandHistory.execute and undo was then called n times, the Spectrum,
\* the Baseline, the peak set and the Fit result are those of before c1.
\* (i is the place of c1 in commands; index = i - 2 says that commands[i]
\* and everything after it is undone.)
C1_UndoAllRestoresSession ==
    run.undoing =>
        \A i \in run.lo..Len(pre) : (index = i - 2) => session = pre[i]

UndoInCycle ==
    /\ index + 1 >= run.lo
    /\ (~run.undoing \/ (~IsNone(cycle.base) /\ cycle.r = 0))
RedoInCycle == ~IsNone(cycle.base) /\ cycle.r < cycle.k

C3_ExecuteTruncates ==
    [][ (lastOp'.name = "execute" /\ ~lastOp'.raised) =>
            /\ Len(commands') = index + 2
            /\ SubSeq(commands', 1, index + 1) = SubSeq(commands, 1, index + 1)
            /\ index' = Len(commands') - 1
            /\ commands'[index' + 1] = Execute(Val(lastOp'.cmd), App).cmd
            /\ CommandHistory_redo(H, App)' = Result(FALSE, H, App)' ]_vars

\* A command was executed while undone commands lay beyond the cursor.
C3_Witness == ExecutedOk /\ lastOp.dropped > 0 /\ Len(commands) = 2

\* C4: the cursor is always at least -1 and below len(commands).
C4_CursorInRange == -1 <= index /\ index < Len(commands)

\* CommandHistory.redo raised: the cursor moved onto the command before its
\* execute() failed.
C4_Witness == lastOp.name = "redo" /\ lastOp.raised /\ index = Len(commands) - 1

\* C5: undo() with the cursor at -1 and redo() with the cursor on the last
\* command raise nothing and change neither the history nor the session
\* nor any command.
C5_BoundaryNoOps ==
    [][ /\ (lastOp'.name = "undo" /\ lastOp' # lastOp /\ index = -1) =>
                (~lastOp'.raised /\ UNCHANGED <<commands, index, app>>)
        /\ (lastOp'.name = "redo" /\ lastOp' # lastOp /\ index = Len(commands) - 1) =>
                (~lastOp'.raised /\ UNCHANGED <<commands, index, app>>) ]_vars

\* undo() was called at the bottom of a history that holds commands.
C5_Witness ==
    /\ lastOp.name = "undo" /\ lastOp.noop /\ index = -1 /\ Len(commands) > 0

\* C6: when cmd.execute() raises inside CommandHistory.execute(cmd), the
\* call raises, cmd is not in commands afterwards and the cursor is where
\* it was.
C6_FailedExecuteNotAppended ==
    [][ (lastOp'.name = "execute" /\ lastOp'.raised) =>
            /\ index' = index
            /\ Len(commands') <= index + 1
            /\ commands' = SubSeq(commands, 1, Len(commands')) ]_vars

\* fit_peaks raised inside CommandHistory.execute (no peak to fit).
C6_Witness == ExecuteRaised /\ ~IsNone(spectrum) /\ peaks_x = <<>>

\* C7: a CommandHistory.execute(cmd) whose cmd.execute() raises leaves
\* commands (the undone commands beyond the cursor included) and the cursor
\* as they were before the call.
C7_FailedExecuteKeepsHistory ==
    [][ (lastOp'.name = "execute" /\ lastOp'.raised) =>
            (commands' = commands /\ index' = index) ]_vars

\* C8: undo() of a command that was constructed and not executed raises
\* nothing and leaves the session as it was when the command was made.
C8_UndoBeforeExecute ==
    [][ (lastOp'.name = "undo_unexecuted") =>
            (~lastOp'.raised /\ session' = session) ]_vars

\* The command the last successful execute or redo ran, and the session it
\* was first executed in.
LastCommand == commands[index + 1]
BeforeLast == pre[index + 1]
\* The command the last undo undid, and the session it was first executed in.
UndoneCommand == commands[index + 2]
BeforeUndone == pre[index + 2]
LastWasUndo == lastOp.name = "undo" /\ ~lastOp.noop /\ ~lastOp.raised
LastWasRedo == lastOp.name = "redo" /\ ~lastOp.noop /\ ~lastOp.raised

\* y is the crop of old over [start_x, end_x]: NaN where the x lies in the
\* closed range, the old value elsewhere, on the same x.
IsCropOf(new, old, start_x, end_x) ==
    /\ new.x = old.x
    /\ Len(new.y) = Len(old.y)
    /\ \A i \in 1..Len(old.y) :
          new.y[i] = IF start_x <= old.x[i] /\ old.x[i] <= end_x
                     THEN NaN ELSE old.y[i]

\* C9: after a Crop over [start_x, end_x] was executed, the samples with
\* start_x <= x <= end_x and no others are missing (NaN), x and the lengths
\* of x and y are those of before, and after the Crop is undone the spectrum
\* is the one of before the Crop.  On x = [0..4], y = [1,5,1,1,1] the crop
\* [1,2] gives y = [1,NaN,NaN,1,1].
C9_CropMarksClosedRange ==
    /\ (ExecutedOk /\ LastCommand.kind = "Crop") =>
          /\ IsCropOf(Val(spectrum), Val(BeforeLast[1]),
                      LastCommand.crop_start_x, LastCommand.crop_end_x)
          /\ (/\ Val(BeforeLast[1]).x = <<0, 1, 2, 3, 4>>
              /\ Val(BeforeLast[1]).y = <<1, 5, 1, 1, 1>>
              /\ LastCommand.crop_start_x = 1 /\ LastCommand.crop_end_x = 2)
                 => Val(spectrum).y = <<1, NaN, NaN, 1, 1>>
    /\ (LastWasUndo /\ UndoneCommand.kind = "Crop") =>
          spectrum = BeforeUndone[1]

\* The crop [1,2] of x = [0..4], y = [1,5,1,1,1] was executed and undone.
C9_Witness ==
    /\ LastWasUndo /\ UndoneCommand.kind = "Crop"
    /\ UndoneCommand.crop_start_x = 1 /\ UndoneCommand.crop_end_x = 2
    /\ UndoneCommand.new_spectrum.y = <<1, NaN, NaN, 1, 1>>
    /\ Val(spectrum).y = <<1, 5, 1, 1, 1>>

\* A step that executes, undoes or redoes a Load.
LoadStep ==
    \/ lastOp'.name = "execute" /\ Val(lastOp'.cmd).kind = "Load"
    \/ lastOp'.name = "undo" /\ index >= 0 /\ commands[index + 1].kind = "Load"
    \/ lastOp'.name = "redo" /\ index < Len(commands) - 1
           /\ commands[index + 2].kind = "Load"

\* C10: whenever a spectrum is loaded its x and y have the same length, and
\* a step that is not the execute, undo or redo of a Load leaves the length
\* of the spectrum as it was.
C10_LengthsAgree ==
    /\ [](~IsNone(spectrum) => Len(Val(spectrum).x) = Len(Val(spectrum).y))
    /\ [][ (~IsNone(spectrum) /\ ~IsNone(spectrum') /\ ~LoadStep) =>
              /\ Len(Val(spectrum').x) = Len(Val(spectrum).x)
              /\ Len(Val(spectrum').y) = Len(Val(spectrum).y) ]_vars

\* The 13-sample spectrum was cropped, baseline-corrected and smoothed.
C10_Witness ==
    /\ ExecutedOk /\ LastCommand.kind = "Smooth"
    /\ \E i, j \in 1..Len(commands) :
          commands[i].kind = "Crop" /\ commands[j].kind = "CorrectBaseline"
    /\ index = Len(commands) - 1
    /\ Len(Val(spectrum).y) = 13

\* What trail holds for the command the last undo undid, and for the
\* command the last redo ran.
UndoneTrail == trail[index + 2]
RedoneTrail == trail[index + 1]

\* C11: after a Load is undone the spectrum and the edit log are those of
\* just before the Load was run; with no spectrum and an empty log before,
\* there is no spectrum and the log is empty.
C11_UndoLoadRestores ==
    (LastWasUndo /\ UndoneCommand.kind = "Load") =>
        /\ spectrum = UndoneTrail.session[1]
        /\ plot1_log = UndoneTrail.log

\* C12: after every undo of a Load the edit log is the log of just before
\* the Load was first executed, and after every redo of a Load it is the
\* log of just after that first execute.
C12_LoadLogAcrossCycles ==
    /\ (LastWasUndo /\ UndoneCommand.kind = "Load") =>
          plot1_log = UndoneTrail.log0
    /\ (LastWasRedo /\ LastCommand.kind = "Load") =>
          plot1_log = RedoneTrail.log1

\* C13: after an EstimateBaseline is undone the baseline is the one of just
\* before the estimate was run (None only if there was none).
C13_UndoEstimateRestoresBaseline ==
    (LastWasUndo /\ UndoneCommand.kind = "EstimateBaseline") =>
        baseline_data = UndoneTrail.session[2]

\* y_old - baseline as numpy computes it (NaN where either is NaN); y_old
\* itself when there is no baseline.
Corrected(old, baseline) ==
    IF IsNone(baseline) THEN old.y
    ELSE [i \in 1..Len(old.y) |->
            IF old.y[i] = NaN \/ Val(baseline)[i] = NaN THEN NaN
            ELSE old.y[i] - Val(baseline)[i]]

\* C14: after a CorrectBaseline was run the spectrum has the x of before and
\* y_old[i] - baseline[i] at every index (y_old when there was no baseline),
\* both taken when the command was made; after it is undone the spectrum
\* and the baseline are those of then, an absent baseline included.
C14_CorrectBaselineSubtracts ==
    /\ ((ExecutedOk \/ LastWasRedo) /\ LastCommand.kind = "CorrectBaseline") =>
          /\ Val(spectrum).x = Val(BeforeLast[1]).x
          /\ Val(spectrum).y = Corrected(Val(BeforeLast[1]), BeforeLast[2])
    /\ (LastWasUndo /\ UndoneCommand.kind = "CorrectBaseline") =>
          /\ spectrum = BeforeUndone[1]
          /\ baseline_data = BeforeUndone[2]

\* A CorrectBaseline that subtracted a baseline holding a non-zero value was
\* undone.
C14_Witness ==
    /\ LastWasUndo /\ UndoneCommand.kind = "CorrectBaseline"
    /\ ~IsNone(baseline_data)
    /\ UndoneCommand.new_spectrum.y # Val(spectrum).y

\* s without its element at the 0-based index idx.
Without(s, idx) ==
    [i \in 1..(Len(s) - 1) |-> IF i <= idx THEN s[i] ELSE s[i + 1]]

\* C15: after an AddPeakPoint was run the peak set is the one of just before
\* with the pair (x, y) appended; after a RemovePeakPoint(idx) was run it is
\* the one of just before without the pair at idx, the others in order;
\* after either is undone it is the one of just before the command was run.
\* From the peak set {(2,5)}, RemovePeakPoint(0) leaves no peak.
C15_PeakPointCommands ==
    /\ ((ExecutedOk \/ LastWasRedo) /\ LastCommand.kind = "AddPeakPoint") =>
          /\ peaks_x = Append(RedoneTrail.session[3], LastCommand.x)
          /\ peaks_y = Append(RedoneTrail.session[4], LastCommand.y)
    /\ ((ExecutedOk \/ LastWasRedo) /\ LastCommand.kind = "RemovePeakPoint") =>
          /\ peaks_x = Without(RedoneTrail.session[3], LastCommand.idx)
          /\ peaks_y = Without(RedoneTrail.session[4], LastCommand.idx)
          /\ (/\ RedoneTrail.session[3] = <<2>>
              /\ RedoneTrail.session[4] = <<5>>
              /\ LastCommand.idx = 0) => (peaks_x = <<>> /\ peaks_y = <<>>)
    /\ (LastWasUndo /\ UndoneCommand.kind \in {"AddPeakPoint", "RemovePeakPoint"}) =>
          /\ peaks_x = UndoneTrail.session[3]
          /\ peaks_y = UndoneTrail.session[4]

\* RemovePeakPoint(0) on the peak set {(2,5)} was run and undone.
C15_Witness ==
    /\ LastWasUndo /\ UndoneCommand.kind = "RemovePeakPoint"
    /\ UndoneCommand.idx = 0
    /\ peaks_x = <<2>> /\ peaks_y = <<5>>

\* C16: running a FitPeaks command leaves the fit of the spectrum over the
\* peak set as the session's Fit result, and undoing a FitPeaks command leaves
\* the Fit result the session had when the command was built (none when there
\* was none), whatever was done to the current Fit result since then.
C16_FitPeaksOwnCopy ==
    /\ (ExecutedOk /\ LastCommand.kind = "FitPeaks") =>
          fit_stats_2 = Some(fit_gauss(Val(spectrum).x, Val(spectrum).y, peaks_x))
    /\ (LastWasUndo /\ UndoneCommand.kind = "FitPeaks") =>
          fit_stats_2 = BeforeUndone[5]

\* Helpers of the search claims: the last search, the filenames of a
\* combination and the reference peaks of a filename.
Searched == Val(search)
RowsOf(filename) ==
    { i \in 1..Len(Searched.database) : Searched.database[i].filename = filename }
PeaksOfCombo(combo) ==
    UNION { ToSet(Searched.database[i].peaks) :
                i \in UNION { RowsOf(combo[k]) : k \in 1..Len(combo) } }
Distance(p, q) == IF p < q THEN q - p ELSE p - q
Combos(r) == ToSet(Searched.result[r])

\* C17: in every size class of a search result, each unknown peak is within
\* the tolerance (inclusive) of some peak of some reference spectrum of the
\* combination.
C17_SupersetLaw ==
    ~IsNone(search) =>
        \A r \in 1..MaxComboSize : \A combo \in Combos(r) :
            \A p \in ToSet(Searched.unknown_peaks) :
                \E q \in PeaksOfCombo(combo) : Distance(p, q) <= Searched.tol

\* A search with a positive tolerance that returned a pair whose peaks lie
\* exactly at the tolerance from the unknown peaks.
C17_Witness ==
    /\ ~IsNone(search)
    /\ Searched.tol = 1
    /\ Searched.unknown_peaks = <<101, 299>>
    /\ <<"A", "B">> \in Combos(2)

\* The reference records that pass the prefilter of the last search: the
\* strongest peak is within the tolerance of some unknown peak.
Prefiltered ==
    { i \in 1..Len(Searched.database) :
        \E p \in ToSet(Searched.unknown_peaks) :
            Distance(Searched.database[i].strongest_peak, p) <= Searched.tol }

\* C18: the candidates of a search are exactly the records whose strongest
\* peak is within the tolerance (inclusive) of some unknown peak, and every
\* filename of a returned combination is the filename of such a record.
C18_PrefilterBoundsResults ==
    ~IsNone(search) =>
        /\ fetch_filename_and_peaks_filtered(Searched.database,
                Searched.unknown_peaks, Searched.tol)
             = LET kept == SelectSeq([i \in 1..Len(Searched.database) |-> i],
                                     LAMBDA i : i \in Prefiltered)
               IN  [k \in 1..Len(kept) |->
                      <<Searched.database[kept[k]].filename,
                        Searched.database[kept[k]].peaks>>]
        /\ \A r \in 1..MaxComboSize : \A combo \in Combos(r) :
             \A k \in 1..Len(combo) : RowsOf(combo[k]) \cap Prefiltered # {}

\* A search over a database holding "D", whose peaks cover the unknown
\* peaks and whose strongest peak is out of tolerance: the pair of the other
\* two records is returned, "D" is returned in no size class.
C18_Witness ==
    /\ ~IsNone(search)
    /\ RowD \in ToSet(Searched.database)
    /\ Searched.unknown_peaks = <<100, 300>>
    /\ Combos(1) = {}
    /\ Combos(2) = { <<"A", "B">> }

\* The scenario of C19: the database holds exactly "A" with the peaks 100 and
\* 200 and "B" with the peak 300, and the peaks 100 and 300 were searched
\* with tolerance 0.
C19_Scenario ==
    /\ ~IsNone(search)
    /\ Len(Searched.database) = 2
    /\ Searched.database[1].filename = "A"
    /\ ToSet(Searched.database[1].peaks) = {100, 200}
    /\ Searched.database[2].filename = "B"
    /\ ToSet(Searched.database[2].peaks) = {300}
    /\ ToSet(Searched.unknown_peaks) = {100, 300}
    /\ Searched.tol = 0

\* C19 as stated: in the scenario the size-2 class is the combination {A, B}
\* and the size-1 class is empty.
C19_ScenarioAsStated ==
    C19_Scenario => /\ Combos(2) = { <<"A", "B">> }
                    /\ Combos(1) = {}

\* C19 amended: in the scenario with 100 catalogued as the strongest peak of
\* "A" (and 300 as that of "B"), the size-2 class is the combination {A, B}
\* and the size-1 class is empty; with 200 catalogued as the strongest peak
\* of "A", the size-2 class is empty as well.
C19_ScenarioByStrongestPeak ==
    C19_Scenario =>
        /\ Combos(1) = {}
        /\ (Searched.database[1].strongest_peak = 100
             /\ Searched.database[2].strongest_peak = 300)
                => Searched.result[2] = << <<"A", "B">> >>
        /\ Searched.database[1].strongest_peak = 200 => Combos(2) = {}

C19_Witness ==
    /\ C19_Scenario
    /\ Searched.database[1].strongest_peak = 100
    /\ Searched.result[2] = << <<"A", "B">> >>
    /\ Searched.result[1] = <<>>

\* The mineral names of a combination of filenames, counted by name.
NameCount(names, n) == Cardinality({ i \in 1..Len(names) : names[i] = n })
NameBag(names) == [n \in ToSet(MineralNames) |-> NameCount(names, n)]
NamesOfCombo(combo) ==
    [k \in 1..Len(combo) |->
        Searched.database[CHOOSE i \in RowsOf(combo[k]) : TRUE].names]
IsSortedNames(t) ==
    \A i \in 1..(Len(t) - 1) : NameRank(t[i]) <= NameRank(t[i + 1])

\* C20: for each size class, the deduplicated result holds only sorted name
\* tuples, holds for every returned filename combination the sorted tuple of
\* its mineral names, holds nothing else, and holds as many tuples as the
\* combinations have distinct collections of names.
C20_UniqueSortedNameTuples ==
    ~IsNone(search) =>
        \A r \in 1..MaxComboSize :
            /\ \A t \in Searched.unique[r] : IsSortedNames(t)
            /\ \A combo \in Combos(r) : \E t \in Searched.unique[r] :
                    NameBag(t) = NameBag(NamesOfCombo(combo))
            /\ \A t \in Searched.unique[r] : \E combo \in Combos(r) :
                    NameBag(t) = NameBag(NamesOfCombo(combo))
            /\ Cardinality(Searched.unique[r])
                 = Cardinality({ NameBag(NamesOfCombo(combo)) : combo \in Combos(r) })

\* A search that returned the pairs {A, B} and {B, C}, which are the same
\* two minerals: one tuple stands for both.
C20_Witness ==
    /\ ~IsNone(search)
    /\ { <<"A", "B">>, <<"B", "C">> } \subseteq Combos(2)
    /\ <<"calcite", "quartz">> \in Searched.unique[2]
    /\ Cardinality(Searched.unique[2]) < Cardinality(Combos(2))

\* The frame of the function called last.
Called == Val(call)
Returned(fn) == /\ ~IsNone(call) /\ Called.fn = fn
                /\ ~Called.raised /\ ~IsNone(Called.ret)

\* C21: a call of find_spectrum_matches, for any unknown peaks and any
\* tolerance >= 0, does not raise and returns a mapping with exactly the keys
\* 1, 2 and 3, each holding a list (the empty list when no combination of
\* that size matches).
C21_NoMatchIsNoError ==
    (~IsNone(call) /\ Called.fn = "find_spectrum_matches" /\ Called.tol >= 0) =>
        /\ ~Called.raised
        /\ DOMAIN Val(Called.ret) = 1..3
        /\ \A r \in 1..3 : Val(Called.ret)[r] \in Seq(Seq({"A", "B", "C", "D"}))

\* The number of samples of y that are not missing.
ValidCount(y) == Cardinality({ i \in DOMAIN y : y[i] # NaN })
AppendedKind(kind) ==
    /\ lastOp'.name = "execute" /\ ~lastOp'.raised
    /\ Val(lastOp'.cmd).kind = kind

ValidRank(y, i) == Cardinality({ j \in 1..i : y[j] # NaN })

\* C23: what baseline_als returns is as long as y, is missing exactly where
\* y is missing, and holds at the k-th valid position the k-th value of
\* the last solve.
C23_BaselineAlignedWithInput ==
    Returned("baseline_als") =>
        LET z == Val(Called.ret)
            y == Called.y
        IN  /\ Len(z) = Len(y)
            /\ \A i \in 1..Len(y) : (z[i] = NaN) <=> (y[i] = NaN)
            /\ \A i \in 1..Len(y) :
                    y[i] # NaN => z[i] = Val(Called.z_valid)[ValidRank(y, i)]

\* C29: after every pass of the loop of baseline_als each weight is p or
\* 1 - p (1 - p also where y_valid equals z_valid), and the function
\* returns after exactly niter passes.
C29_WeightsArePOrOneMinusP ==
    (~IsNone(call) /\ Called.fn = "baseline_als" /\ ~Called.raised) =>
        /\ Called.i >= 1 =>
                \A k \in DOMAIN Called.w :
                    Called.w[k] \in { Called.p, WeightScale - Called.p }
        /\ ~IsNone(Called.ret) => Called.i = Called.niter

\* C24: every peak record of the fit result has FWHM = Sigma * 2.35482,
\* after a fit, after a fit was undone or redone, and after the control
\* lines were used.
C24_FwhmFollowsSigma ==
    ~IsNone(fit_stats_2) =>
        \A k \in 1..Len(Val(fit_stats_2)) :
            Val(fit_stats_2)[k].FWHM = Val(fit_stats_2)[k].Sigma * FwhmFactor

\* C25: a fit that used up its evaluation budget without converging is
\* reported: it is not stored as the fit result and appended to the
\* history as a converged fit is.
C25_UnconvergedFitIsReported ==
    [][ (/\ nops' = nops + 1
         /\ lastOp'.name = "execute" /\ Val(lastOp'.cmd).kind = "FitPeaks"
         /\ ~IsNone(call') /\ Val(call').fn = "fit_gauss"
         /\ ~Val(call').success) =>
            \/ lastOp'.raised
            \/ UNCHANGED <<commands, index, fit_stats_2>> ]_vars

\* C28: a redo whose commands[cursor+1].execute() raises leaves the cursor
\* where it was, so that the commands up to the cursor are the applied ones.
C28_FailedRedoKeepsCursor ==
    [][ (lastOp'.name = "redo" /\ lastOp'.raised) => index' = index ]_vars

\* Point ix of the scatter is at (x, y) after the step and the other points
\* are where they were.
MovedTo(ix, x, y) ==
    /\ ~IsNone(draggableScatter) /\ ~IsNone(draggableScatter')
    /\ Val(draggableScatter') =
          [x |-> [Val(draggableScatter).x EXCEPT ![ix + 1] = x],
           y |-> [Val(draggableScatter).y EXCEPT ![ix + 1] = y]]

\* After the step the baseline is the interpolation of the scatter's points
\* over the x of the spectrum.
Interpolated ==
    /\ ~IsNone(spectrum') /\ ~IsNone(baseline_data')
    /\ \A i \in 1..Len(Val(spectrum').x) :
          Val(baseline_data')[i] =
              interp_value(Val(spectrum').x[i], Val(draggableScatter').x,
                           Val(draggableScatter').y)
    /\ Len(Val(baseline_data')) = Len(Val(spectrum').x)

\* C30: a PointDrag command puts the point at its index to (endX, endY)
\* when it is executed or redone and to (startX, startY) when it is undone,
\* leaves the other points alone, and in both directions the baseline is
\* then the interpolation of the points over the x of the spectrum.
C30_DragMovesOnePoint ==
    [][ /\ (/\ lastOp'.name = "execute" /\ ~lastOp'.raised
            /\ Val(lastOp'.cmd).kind = "PointDrag") =>
               /\ MovedTo(Val(lastOp'.cmd).index, Val(lastOp'.cmd).endX,
                          Val(lastOp'.cmd).endY)
               /\ Interpolated
        /\ (/\ lastOp'.name = "redo" /\ ~lastOp'.raised /\ ~lastOp'.noop
            /\ commands[index + 2].kind = "PointDrag") =>
               /\ MovedTo(commands[index + 2].index, commands[index + 2].endX,
                          commands[index + 2].endY)
               /\ Interpolated
        /\ (/\ lastOp'.name = "undo" /\ ~lastOp'.raised /\ ~lastOp'.noop
            /\ commands[index + 1].kind = "PointDrag") =>
               /\ MovedTo(commands[index + 1].index, commands[index + 1].startX,
                          commands[index + 1].startY)
               /\ Interpolated ]_vars

\* A drag that moved the first of three points past the second was undone.
C30_Witness ==
    /\ LastWasUndo
    /\ UndoneCommand.kind = "PointDrag"
    /\ Len(Val(draggableScatter).x) = 3
    /\ UndoneCommand.index = 0
    /\ UndoneCommand.endX > Val(draggableScatter).x[2]
    /\ Val(draggableScatter).x[1] = UndoneCommand.startX

\* The filenames of the candidates of the last search, and the peaks of a
\* set of them.
Candidates == { Searched.database[i].filename : i \in Prefiltered }
PeaksOfSet(S) ==
    UNION { ToSet(Searched.database[i].peaks) :
                i \in { j \in 1..Len(Searched.database) :
                            Searched.database[j].filename \in S } }
Covering(r) ==
    { S \in SUBSET Candidates :
        /\ Cardinality(S) = r
        /\ \A p \in ToSet(Searched.unknown_peaks) :
              \E q \in PeaksOfSet(S) : Distance(p, q) <= Searched.tol }

\* C27: for r = 1, 2, 3 the result of a search lists every set of r
\* candidates whose united peaks cover the unknown peaks, each set once and
\* no candidate twice in a combination.
C27_EveryCoveringSetOnce ==
    ~IsNone(search) =>
        \A r \in 1..3 :
            LET res == Searched.result[r]
            IN  /\ { ToSet(res[k]) : k \in 1..Len(res) } = Covering(r)
                /\ \A k \in 1..Len(res) :
                      Len(res[k]) = r /\ Cardinality(ToSet(res[k])) = r
                /\ \A j, k \in 1..Len(res) :
                      ToSet(res[j]) = ToSet(res[k]) => j = k

\* Three candidates of which one, every pair and the triple cover the
\* unknown peaks.
C27_Witness ==
    /\ ~IsNone(search)
    /\ Cardinality(Candidates) = 3
    /\ Len(Searched.result[1]) = 1
    /\ Len(Searched.result[2]) = 3
    /\ Len(Searched.result[3]) = 1

\* C26: get_xy_from_file returns x and y of equal length or raises; it
\* returns nothing partial and nothing absent, whatever the file.
C26_ReturnsPairOrRaises ==
    (~IsNone(call) /\ Called.fn = "get_xy_from_file" /\ ~Called.raised) =>
        /\ ~IsNone(Called.ret)
        /\ Len(Val(Called.ret).x) = Len(Val(Called.ret).y)
        /\ Len(Val(Called.ret).x) > 0

\* C31: a snapshot recorded in the history of a Spectrum is never changed:
\* every history entry is as it was when it was recorded, and an undo() that
\* moves makes x and y the snapshot recorded at the entry it moves to, that
\* is, what they were before the most recent not-yet-undone edit.
C31_SnapshotsAreImmutable ==
    InSpectrum =>
        /\ Self._history = Val(call).recorded
        /\ (Val(call).op = "undo" =>
               <<Self.x, Self.y>> = Val(call).recorded[Self._current + 1])

\* C32: the pointer of a Spectrum stays inside its history; an edit that
\* completes leaves it at the last entry, which directly follows the entry
\* it pointed at before; undo at 0 and redo at the last entry change nothing.
C32_PointerWithinHistory ==
    [][ InSpectrum' =>
          LET s == Val(call).self
              t == Val(call').self
              f == Val(call')
          IN  /\ 0 <= t._current /\ t._current < Len(t._history)
              /\ (f.op \in {"correct_baseline", "crop"} /\ ~f.raised =>
                    /\ t._current = Len(t._history) - 1
                    /\ t._current = s._current + 1
                    /\ \A k \in 1..(s._current + 1) :
                         t._history[k][1] = s._history[k][1])
              /\ (f.op = "undo" /\ s._current = 0 => t = s)
              /\ (f.op = "redo" /\ s._current = Len(s._history) - 1 => t = s)
      ]_vars

\* An edit made after an undo, so that entries were discarded.
C32_Witness ==
    /\ InSpectrum
    /\ Val(call).op \in {"correct_baseline", "crop"} /\ ~Val(call).raised
    /\ Val(call).dropped = 2
    /\ Self._current = 1

\* The session attributes a command of each class writes in execute() or
\* undo(); the plot widgets are not session state.
Touches(kind, name) ==
    CASE kind \in {"AddPeakPoint", "RemovePeakPoint"} ->
             name \in {"peaks_x", "peaks_y"}
      [] kind \in {"Load", "Crop", "Smooth"} -> name \in {"spectrum"}
      [] kind = "CorrectBaseline" -> name \in {"spectrum", "baseline_data"}
      [] kind = "EstimateBaseline" -> name \in {"baseline_data"}
      [] kind = "FitPeaks" -> name \in {"fit_stats_2"}
      [] OTHER -> TRUE

\* C33: undo and redo keep the entries of commands (their number, order and
\* classes, and every entry but the one invoked untouched); a call at a
\* boundary changes nothing, any other call moves the cursor by exactly one
\* (a redo even if its command raises), and session state the invoked
\* command does not write stays as it was.
C33_UndoRedoKeepCommands ==
    [][ (lastOp'.name \in {"undo", "redo"} /\ (nops' = nops + 1 \/ ~Budget)) =>
          LET invoked == IF lastOp'.name = "undo" THEN index + 1 ELSE index + 2
              kind == commands[invoked].kind
          IN  /\ Len(commands') = Len(commands)
              /\ \A k \in 1..Len(commands) :
                    /\ commands'[k].kind = commands[k].kind
                    /\ k # invoked => commands'[k] = commands[k]
              /\ lastOp'.noop => index' = index /\ session' = session
              /\ ~lastOp'.noop /\ lastOp'.name = "redo" => index' = index + 1
              /\ ~lastOp'.noop /\ lastOp'.name = "undo" /\ ~lastOp'.raised =>
                    index' = index - 1
              /\ ~lastOp'.noop =>
                    /\ ~Touches(kind, "spectrum") => spectrum' = spectrum
                    /\ ~Touches(kind, "baseline_data") =>
                           baseline_data' = baseline_data
                    /\ ~Touches(kind, "peaks_x") => peaks_x' = peaks_x
                    /\ ~Touches(kind, "peaks_y") => peaks_y' = peaks_y
                    /\ ~Touches(kind, "fit_stats_2") =>
                           fit_stats_2' = fit_stats_2
      ]_vars

\* A redo in the middle of a history of three commands.
C33_Witness ==
    /\ LastWasRedo
    /\ Len(commands) = 3
    /\ index = 1
    /\ LastCommand.kind = "RemovePeakPoint"

\* C34: peaks_x and peaks_y always have the same length.  A RemovePeakPoint
\* whose idx lies outside the peak set raises and leaves peaks_x and peaks_y
\* as they were: when redo re-executes it, commands is left as it was, and
\* when it is handed to CommandHistory.execute in any state reached, it is
\* not appended.
C34_PeakArraysStayPaired ==
    [][ /\ Len(peaks_x) = Len(peaks_y)
        /\ Len(peaks_x') = Len(peaks_y')
        /\ (/\ lastOp'.name = "redo" /\ ~lastOp'.noop
            /\ commands[index + 2].kind = "RemovePeakPoint"
            /\ NpDeleteRaises(peaks_x, commands[index + 2].idx)) =>
               /\ lastOp'.raised
               /\ peaks_x' = peaks_x /\ peaks_y' = peaks_y
               /\ Len(commands') = Len(commands)
        /\ \A idx \in Len(peaks_x')..(Len(peaks_x') + 1) :
              LET r == CommandHistory_execute(
                           [commands |-> commands', index |-> index'], App',
                           RemovePeakPointCommand_init(App', idx))
              IN  /\ r.raised
                  /\ r.app.peaks_x = peaks_x' /\ r.app.peaks_y = peaks_y'
                  /\ r.h.index = index'
                  /\ r.h.commands = SubSeq(commands', 1, index' + 1)
      ]_vars

\* A redo of RemovePeakPoint(idx = 1) on a peak set of one peak has failed.
C34_Witness ==
    /\ lastOp.name = "redo" /\ lastOp.raised
    /\ LastCommand.kind = "RemovePeakPoint"
    /\ LastCommand.idx >= Len(peaks_x)
    /\ Len(peaks_x) = 1 /\ Len(peaks_y) = 1

\* C35: matching is monotone in the tolerance: when the same unknown peaks
\* are searched in the same database again with a tolerance that is not
\* smaller, every combination of the earlier result is in the later result,
\* in each size class.
C35_MonotoneInTolerance ==
    [][ (/\ ~IsNone(search) /\ ~IsNone(search')
         /\ Val(search').database = Val(search).database
         /\ Val(search').unknown_peaks = Val(search).unknown_peaks
         /\ Val(search).tol <= Val(search').tol) =>
            \A r \in 1..MaxComboSize :
                ToSet(Val(search).result[r]) \subseteq ToSet(Val(search').result[r])
      ]_vars

\* A search with tolerance 1 that returned the pair (A, B), which the search
\* of the same peaks with tolerance 0 returns too.
C35_Witness ==
    /\ ~IsNone(search)
    /\ Searched.tol = 1
    /\ Searched.unknown_peaks = <<100, 300>>
    /\ <<"A", "B">> \in Combos(2)
    /\ <<"A", "B">> \in ToSet(find_spectrum_matches(Searched.database,
                                                    <<100, 300>>, 0)[2])

\* C36: matches are closed under adding candidates: for a returned
\* combination of size r < 3 and any other candidate of the search, the
\* combination of size r + 1 made of both is returned as well.
C36_ClosedUnderAddingCandidates ==
    ~IsNone(search) =>
        \A r \in 1..(MaxComboSize - 1) : \A combo \in Combos(r) :
            \A f \in Candidates \ ToSet(combo) :
                \E larger \in Combos(r + 1) :
                    /\ ToSet(larger) = ToSet(combo) \cup {f}
                    /\ Len(larger) = r + 1

\* "C" matches alone and is returned paired with each other candidate and in
\* the triple.
C36_Witness ==
    /\ ~IsNone(search)
    /\ Candidates = {"A", "B", "C"}
    /\ Combos(1) = { <<"C">> }
    /\ { <<"A", "C">>, <<"B", "C">> } \subseteq Combos(2)
    /\ <<"A", "B", "C">> \in Combos(3)

\* C37: whenever the baseline button reads 'Apply Baseline Correction' there
\* is a Baseline estimate, and a CorrectBaseline command handed to the
\* history by the button was constructed with one.
C37_ApplyButtonHasBaseline ==
    /\ button_baseline = "Apply Baseline Correction" => ~IsNone(baseline_data)
    /\ (/\ lastOp.name = "execute" /\ ~IsNone(lastOp.cmd)
        /\ Val(lastOp.cmd).kind = "CorrectBaseline") =>
           ~IsNone(Val(lastOp.cmd).old_baseline_data)

\* The undo of a CorrectBaseline, the fifth callback of the session, has set
\* the button back to 'Apply Baseline Correction'.
C37_Witness ==
    /\ LastWasUndo
    /\ Len(commands) >= index + 2
    /\ UndoneCommand.kind = "CorrectBaseline"
    /\ button_baseline = "Apply Baseline Correction"
    /\ ~IsNone(baseline_data)
    /\ nops = 5

\* A call of batch_next_step has just been made.
BatchStepped == nops' = nops + 1 /\ lastOp'.name = "batch_next_step"

\* The steps of C38: a call that completes a step moves to the next of the
\* eleven steps and, after the eleventh, to the next file; a call whose step
\* raises moves nothing; a call after the last file does nothing.
BatchStepsInOrder ==
    BatchStepped =>
        /\ (~lastOp'.raised /\ ~lastOp'.noop) =>
              /\ batch'.current_batch_step_index =
                    (batch.current_batch_step_index + 1) % 11
              /\ batch'.current_batch_file_index =
                    IF batch.current_batch_step_index = 10
                    THEN batch.current_batch_file_index + 1
                    ELSE batch.current_batch_file_index
        /\ lastOp'.raised =>
              /\ batch'.current_batch_step_index = batch.current_batch_step_index
              /\ batch'.current_batch_file_index = batch.current_batch_file_index
        /\ batch.current_batch_file_index >= Len(batch.batch_files) =>
              /\ lastOp'.noop
              /\ UNCHANGED <<commands, index, app>>

\* C38: in batch processing 0 <= current_batch_step_index < 11 and
\* 0 <= current_batch_file_index <= len(batch_files) in every state, and
\* the calls of batch_next_step go through the steps in order.
C38_BatchIndicesInRange ==
    [][ /\ batch'.current_batch_step_index \in 0..10
        /\ batch'.current_batch_file_index \in 0..Len(batch'.batch_files)
        /\ BatchStepsInOrder
      ]_vars

====
